---- MODULE Spec2Model ----
(***************************************************************************)
(* A model of the core of the Prolog interpreter: the term model, the      *)
(* persistent binding environment (a red-black tree of heap nodes),        *)
(* unification, the operator table and the clause database.                *)
(***************************************************************************)
EXTENDS Integers, Sequences, FiniteSets, TLC

VARIABLES
    heap,       \* the Go heap of term.Env nodes; an *Env is an index, 0 is nil
    held,       \* Env spec: the environments callers hold, with what they saw
    un,         \* Unify spec: the caller's env and the last unification
    rs,         \* Resolve spec: the position of one Env.Resolve call
    tv,         \* traversal spec: the call stack of one deep traversal
    ops,        \* operator spec: vm.operators and the last op/3 call
    db,         \* database spec: vm.procedures, the last assert and call
    bi,         \* built-in specs: the call of one built-in predicate
    streams,    \* stream spec: vm.streams and the last open/close
    top,        \* top-level spec: the position of handleLine and what it printed
    gen,        \* variable spec: varCounter and the goroutines calling NewVariable
    vm          \* execution spec: vm.procedures and the trace of the last query

vars == <<heap, held, un, rs, tv, ops, db, bi, streams, top, gen, vm>>

(***************************************************************************)
(* Terms.  term.Variable and term.Atom are Go strings, term.Integer an     *)
(* int64, *term.Compound a functor with arguments.                         *)
(***************************************************************************)
Var(n) == <<"var", n>>
Atom(a) == <<"atom", a>>
Integer(i) == <<"int", i>>
Cmp(f, args) == <<"cmp", f, args>>

IsVar(t) == t[1] = "var"
IsAtom(t) == t[1] = "atom"
IsInteger(t) == t[1] = "int"
IsCmp(t) == t[1] = "cmp"
FunctorOf(t) == t[2]
ArgsOf(t) == t[3]

\* The strings the model uses, in the byte order Go compares strings by.
Names ==
    <<"-", ".", "A", "Answers", "G", "L", "N", "T", "V", "W", "X", "Y", "Z", "[]", "^",
      "_1", "_2", "_3", "_4", "_5", "a", "b", "c", "f", "foo", "g", "p", "t", "vars">>

Rank(s) == CHOOSE i \in 1..Len(Names) : Names[i] = s

\* strings.Compare
StrCompare(s, t) ==
    IF Rank(s) < Rank(t) THEN -1 ELSE IF Rank(s) > Rank(t) THEN 1 ELSE 0

(***************************************************************************)
(* term.Env: a persistent red-black tree.  A node lives on the heap; nil   *)
(* is 0; NoValue is the (nil, false) answer of Lookup.                     *)
(***************************************************************************)
NoValue == <<"none">>

\* The(S) is the element of the one-element set S.  The({F(x) : x \in {E}}) is
\* F(E) with E computed once.
The(S) == CHOOSE x \in S : TRUE

Node(c, l, r, k, v) == [color |-> c, left |-> l, right |-> r, variable |-> k, value |-> v]

\* NewEnv
NewEnv == 0

Alloc(h, n) == [h |-> Append(h, n), p |-> Len(h) + 1]

RECURSIVE Lookup(_, _, _)
Lookup(h, e, k) ==
    IF e = 0 THEN NoValue
    ELSE IF StrCompare(k, h[e].variable) < 0 THEN Lookup(h, h[e].left, k)
    ELSE IF StrCompare(k, h[e].variable) > 0 THEN Lookup(h, h[e].right, k)
    ELSE h[e].value

IsRed(h, p) == p # 0 /\ h[p].color = "red"

\* The node *e is rebuilt from a, b, c, d and x, y, z (two fresh black children).
Rebuilt(h, a, b, c, d, x, y, z) ==
    LET l == Alloc(h, Node("black", a, b, x.variable, x.value))
        r == Alloc(l.h, Node("black", c, d, z.variable, z.value))
    IN  [h |-> r.h, n |-> Node("red", l.p, r.p, y.variable, y.value)]

\* Env.balance on the node value n (the caller's local copy of the node)
balance(h, n) ==
    IF IsRed(h, n.left) THEN
        IF IsRed(h, h[n.left].left) THEN
            Rebuilt(h, h[h[n.left].left].left, h[h[n.left].left].right,
                    h[n.left].right, n.right,
                    h[h[n.left].left], h[n.left], n)
        ELSE IF IsRed(h, h[n.left].right) THEN
            Rebuilt(h, h[n.left].left, h[h[n.left].right].left,
                    h[h[n.left].right].right, n.right,
                    h[n.left], h[h[n.left].right], n)
        ELSE [h |-> h, n |-> n]
    ELSE IF IsRed(h, n.right) THEN
        IF IsRed(h, h[n.right].left) THEN
            Rebuilt(h, n.left, h[h[n.right].left].left,
                    h[h[n.right].left].right, h[n.right].right,
                    n, h[h[n.right].left], h[n.right])
        ELSE IF IsRed(h, h[n.right].right) THEN
            Rebuilt(h, n.left, h[n.right].left,
                    h[h[n.right].right].left, h[h[n.right].right].right,
                    n, h[n.right], h[h[n.right].right])
        ELSE [h |-> h, n |-> n]
    ELSE [h |-> h, n |-> n]

\* What insert does with the copy ret of *e once the subtree is inserted: it
\* balances the copy and returns its address.
StoreCopy(h, e, n) ==
    The({Alloc(b.h, b.n) : b \in {balance(h, n)}})

\* A plausible slip: ret aliases e (ret := e), so the node is rebuilt in place.
StoreInPlace(h, e, n) ==
    The({[h |-> [b.h EXCEPT ![e] = b.n], p |-> e] : b \in {balance(h, n)}})

Store(h, e, n) == StoreCopy(h, e, n)

RECURSIVE insert(_, _, _, _)
insert(h, e, k, v) ==
    IF e = 0 THEN Alloc(h, Node("red", 0, 0, k, v))
    ELSE IF StrCompare(k, h[e].variable) < 0 THEN
        The({Store(sub.h, e, [sub.h[e] EXCEPT !.left = sub.p]) :
                sub \in {insert(h, h[e].left, k, v)}})
    ELSE IF StrCompare(k, h[e].variable) > 0 THEN
        The({Store(sub.h, e, [sub.h[e] EXCEPT !.right = sub.p]) :
                sub \in {insert(h, h[e].right, k, v)}})
    ELSE [h |-> h, p |-> e]

\* Env.Bind: the root returned by insert is copied and the copy made black.
Bind(h, e, k, v) ==
    The({Alloc(r.h, [r.h[r.p] EXCEPT !.color = "black"]) : r \in {insert(h, e, k, v)}})

(***************************************************************************)
(* Env.Resolve: one iteration of its loop on the state [t, stop, done].    *)
(***************************************************************************)
InSeq(x, q) == \E i \in 1..Len(q) : q[i] = x

\* A plausible slip: the variables already visited are not looked for.
ResolveLoopUnguarded(h, e, s) ==
    IF IsVar(s.t) THEN
        LET ref == Lookup(h, e, s.t[2])
        IN  IF ref = NoValue THEN [s EXCEPT !.done = TRUE]
            ELSE [t |-> ref, stop |-> Append(s.stop, s.t), done |-> FALSE]
    ELSE [s EXCEPT !.done = TRUE]

ResolveLoop(h, e, s) ==
    IF IsVar(s.t) THEN
        IF InSeq(s.t, s.stop) THEN [s EXCEPT !.done = TRUE]
        ELSE LET ref == Lookup(h, e, s.t[2])
             IN  IF ref = NoValue THEN [s EXCEPT !.done = TRUE]
                 ELSE [t |-> ref, stop |-> Append(s.stop, s.t), done |-> FALSE]
    ELSE [s EXCEPT !.done = TRUE]

RECURSIVE ResolveRun(_, _, _)
ResolveRun(h, e, s) == IF s.done THEN s.t ELSE ResolveRun(h, e, ResolveLoop(h, e, s))

Resolve(h, e, t) == ResolveRun(h, e, [t |-> t, stop |-> <<>>, done |-> FALSE])

(***************************************************************************)
(* term.Contains(t, s, env).  The recursion has no guard of its own: with  *)
(* the call depth left at 0 the answer is "div" (the Go stack overflows).  *)
(***************************************************************************)
RECURSIVE Contains(_, _, _, _, _)
RECURSIVE ContainsArgs(_, _, _, _, _, _)
Contains(h, e, t, s, depth) ==
    IF depth = 0 THEN "div"
    ELSE IF IsVar(t) THEN
        IF t = s THEN "yes"
        ELSE LET ref == Lookup(h, e, t[2])
             IN  IF ref = NoValue THEN "no" ELSE Contains(h, e, ref, s, depth - 1)
    ELSE IF IsCmp(t) THEN
        IF IsAtom(s) /\ FunctorOf(t) = s[2] THEN "yes"
        ELSE ContainsArgs(h, e, ArgsOf(t), 1, s, depth)
    ELSE IF t = s THEN "yes" ELSE "no"

ContainsArgs(h, e, as, i, s, depth) ==
    IF i > Len(as) THEN "no"
    ELSE The({IF c = "no" THEN ContainsArgs(h, e, as, i + 1, s, depth) ELSE c :
                 c \in {Contains(h, e, as[i], s, depth - 1)}})

(***************************************************************************)
(* Unification.  A result is [h, e, ok, div]: the heap, the returned env,  *)
(* the success flag, and div when the recursion ran out of stack.          *)
(***************************************************************************)
Res(h, e, ok) == [h |-> h, e |-> e, ok |-> ok, div |-> FALSE]
Div(h, e) == [h |-> h, e |-> e, ok |-> FALSE, div |-> TRUE]

RECURSIVE TermUnify(_, _, _, _, _, _)
RECURSIVE VariableUnify(_, _, _, _, _, _)
RECURSIVE CompoundUnify(_, _, _, _, _, _)
RECURSIVE UnifyArgs(_, _, _, _, _, _, _)

\* A plausible slip: the occursCheck case is left out of the switch.
VariableUnifyUnchecked(h, e, v, t, occ, depth) ==
    LET r == Resolve(h, e, v)
        rt == Resolve(h, e, t)
    IN  IF ~IsVar(r) THEN TermUnify(h, e, r, rt, occ, depth - 1)
        ELSE IF r = rt THEN Res(h, e, TRUE)
        ELSE The({Res(b.h, b.p, TRUE) : b \in {Bind(h, e, r[2], rt)}})

\* env.Bind(v, t), true
Bound(h, e, v, t) == The({Res(b.h, b.p, TRUE) : b \in {Bind(h, e, v[2], t)}})

\* Variable.Unify
VariableUnify(h, e, v, t, occ, depth) ==
    LET r == Resolve(h, e, v)
        rt == Resolve(h, e, t)
    IN  IF ~IsVar(r) THEN TermUnify(h, e, r, rt, occ, depth - 1)
        ELSE IF r = rt THEN Res(h, e, TRUE)
        ELSE IF occ THEN
            The({ IF c = "div" THEN Div(h, e)
                  ELSE IF c = "yes" THEN Res(h, e, FALSE)
                  ELSE Bound(h, e, r, rt) : c \in {Contains(h, e, rt, r, depth)} })
        ELSE Bound(h, e, r, rt)

\* Atom.Unify and Integer.Unify
AtomicUnify(h, e, a, t, occ, depth) ==
    LET rt == Resolve(h, e, t)
    IN  IF IsVar(rt) THEN VariableUnify(h, e, rt, a, occ, depth - 1)
        ELSE Res(h, e, a = rt)

\* Compound.Unify: the arguments left to right, threading env
UnifyArgs(h, e, as, bs, i, occ, depth) ==
    IF i > Len(as) THEN Res(h, e, TRUE)
    ELSE The({IF r.ok THEN UnifyArgs(r.h, r.e, as, bs, i + 1, occ, depth) ELSE r :
                 r \in {TermUnify(h, e, as[i], bs[i], occ, depth - 1)}})

CompoundUnify(h, e, c, t, occ, depth) ==
    LET rt == Resolve(h, e, t)
    IN  IF IsVar(rt) THEN VariableUnify(h, e, rt, c, occ, depth - 1)
        ELSE IF IsCmp(rt) /\ FunctorOf(c) = FunctorOf(rt) /\ Len(ArgsOf(c)) = Len(ArgsOf(rt))
            THEN UnifyArgs(h, e, ArgsOf(c), ArgsOf(rt), 1, occ, depth)
        ELSE Res(h, e, FALSE)

\* t1.Unify(t2, occursCheck, env), dispatched on the dynamic type of t1
TermUnify(h, e, t1, t2, occ, depth) ==
    IF depth <= 0 THEN Div(h, e)
    ELSE IF IsVar(t1) THEN VariableUnify(h, e, t1, t2, occ, depth)
    ELSE IF IsCmp(t1) THEN CompoundUnify(h, e, t1, t2, occ, depth)
    ELSE AtomicUnify(h, e, t1, t2, occ, depth)

(***************************************************************************)
(* term.Compare.  term.Integer is a two's complement machine integer; the  *)
(* model keeps the wrap-around at a width of IntBits bits in place of 64.  *)
(***************************************************************************)
IntBits == 6

MinInt == -(2 ^ (IntBits - 1))
MaxInt == (2 ^ (IntBits - 1)) - 1

\* the conversion int64(x) of a mathematical result x
Int64(x) == ((x - MinInt) % (2 ^ IntBits)) + MinInt

RECURSIVE Compare(_, _, _, _)
RECURSIVE CompareArgs(_, _, _, _, _)
Compare(h, e, a, b) ==
    LET ra == Resolve(h, e, a)
        rb == Resolve(h, e, b)
    IN  IF IsVar(ra) THEN
            IF IsVar(rb) THEN StrCompare(ra[2], rb[2]) ELSE -1
        ELSE IF IsInteger(ra) THEN
            IF IsVar(rb) THEN 1
            ELSE IF IsInteger(rb) THEN Int64(ra[2] - rb[2])
            ELSE -1
        ELSE IF IsAtom(ra) THEN
            IF IsVar(rb) \/ IsInteger(rb) THEN 1
            ELSE IF IsAtom(rb) THEN StrCompare(ra[2], rb[2])
            ELSE -1
        ELSE \* *Compound: b is switched on as passed, not resolved
            IF IsCmp(b) THEN
                IF StrCompare(FunctorOf(ra), FunctorOf(b)) # 0
                    THEN StrCompare(FunctorOf(ra), FunctorOf(b))
                ELSE IF Len(ArgsOf(ra)) - Len(ArgsOf(b)) # 0
                    THEN Len(ArgsOf(ra)) - Len(ArgsOf(b))
                ELSE CompareArgs(h, e, ArgsOf(ra), ArgsOf(b), 1)
            ELSE 1

CompareArgs(h, e, as, bs, i) ==
    IF i > Len(as) THEN 0
    ELSE The({IF d # 0 THEN d ELSE CompareArgs(h, e, as, bs, i + 1) :
                 d \in {Compare(h, e, as[i], bs[i])}})

(***************************************************************************)
(* Specification SpecEnv: callers bind variables in environments they hold *)
(* and keep the older environments.                                        *)
(***************************************************************************)
MaxBinds == 4

EnvKeys == {"V", "W", "X", "Y", "Z"}
EnvValues == {Atom("a")}

Saw(h, e) == [w \in EnvKeys |-> Lookup(h, e, w)]

Idle == <<>>

EnvInit ==
    /\ heap = <<>>
    /\ held = << [env |-> NewEnv, saw |-> Saw(<<>>, NewEnv)] >>
    /\ un = Idle /\ rs = Idle /\ tv = Idle /\ ops = Idle /\ db = Idle
    /\ bi = Idle /\ streams = Idle /\ top = Idle /\ vm = Idle /\ gen = Idle

\* e2 = e.Bind(k, v) on a held environment e; the caller keeps e and e2.
EnvBind(i, k, v) ==
    /\ Len(held) <= MaxBinds
    /\ \E r \in {Bind(heap, held[i].env, k, v)} :
           /\ heap' = r.h
           /\ held' = Append(held, [env |-> r.p, saw |-> Saw(r.h, r.p)])
    /\ UNCHANGED <<vm, top, gen, bi, streams, un, rs, tv, ops, db>>

EnvNext == \E i \in 1..Len(held), k \in EnvKeys, v \in EnvValues : EnvBind(i, k, v)

SpecEnv == EnvInit /\ [][EnvNext]_vars

\* C1: Env.Bind is persistent: every environment a caller holds answers
\* Lookup(w), for every variable w, as it did when the caller got it, after
\* any sequence of Bind calls (and the rebalancing they trigger) on it or on
\* environments derived from it.
C1_BindPersistent ==
    \A i \in 1..Len(held) : Saw(heap, held[i].env) = held[i].saw

\* A held environment of three bindings that was rebuilt by balance, with a
\* further environment derived from it.
C1_Witness ==
    \E i \in 1..Len(held) :
        /\ i < Len(held)
        /\ held[i].env # 0
        /\ heap[held[i].env].left # 0
        /\ heap[held[i].env].right # 0
        /\ \E w \in EnvKeys : held[i].saw[w] = NoValue /\ held[Len(held)].saw[w] # NoValue

(***************************************************************************)
(* Specification SpecUnify: a goal sequence of =/2 and                     *)
(* unify_with_occurs_check/2 calls, run from an environment that earlier   *)
(* goals left.                                                             *)
(***************************************************************************)
MaxUnify == 1
MaxDepth == 8

UVars == {"X", "Y"}

UTerms ==
    { Var("X"), Var("Y"), Atom("a"), Atom("b"), Integer(1),
      Cmp("f", <<Var("X")>>), Cmp("f", <<Var("Y")>>), Cmp("f", <<Atom("a")>>),
      Cmp("g", <<Atom("a")>>),
      Cmp("f", <<Var("X"), Atom("a")>>), Cmp("f", <<Atom("b"), Atom("b")>>) }

\* The bindings earlier goals made, in the order they were made.
UnifySeeds ==
    { <<>>,
      << <<"X", Atom("a")>> >>,
      << <<"Y", Var("X")>> >>,
      << <<"Y", Cmp("f", <<Var("X")>>)>> >>,
      << <<"X", Atom("b")>>, <<"Y", Cmp("f", <<Var("X")>>)>> >>,
      << <<"X", Cmp("f", <<Var("X")>>)>> >> }

RECURSIVE BindAll(_, _, _, _)
BindAll(h, e, bs, i) ==
    IF i > Len(bs) THEN [h |-> h, p |-> e]
    ELSE The({BindAll(b.h, b.p, bs, i + 1) : b \in {Bind(h, e, bs[i][1], bs[i][2])}})

\* The variables that occur in a term as written.
RECURSIVE VarsOf(_)
VarsOf(t) ==
    IF IsVar(t) THEN {t[2]}
    ELSE IF IsCmp(t) THEN UNION {VarsOf(ArgsOf(t)[i]) : i \in 1..Len(ArgsOf(t))}
    ELSE {}

BoundTo(h, e, v) == IF Lookup(h, e, v) = NoValue THEN {} ELSE VarsOf(Lookup(h, e, v))

\* The variables reachable from the set vs through at most n more bindings.
RECURSIVE Reach(_, _, _, _)
Reach(h, e, vs, n) ==
    IF n = 0 THEN vs
    ELSE Reach(h, e, vs \cup UNION {BoundTo(h, e, v) : v \in vs}, n - 1)

Acyclic(h, e) ==
    \A v \in UVars : v \notin Reach(h, e, BoundTo(h, e, v), Cardinality(UVars))

USaw(h, e) == [w \in UVars |-> Lookup(h, e, w)]

\* Unify / UnifyWithOccursCheck: on failure the promise is Bool(false) and the
\* caller is left with the env it passed; on success k runs with the new env.
UnifyGoalLeaky(h, env, t1, t2, occ) == TermUnify(h, env, t1, t2, occ, MaxDepth)

UnifyGoal(h, env, t1, t2, occ) ==
    The({IF r.ok THEN r ELSE [r EXCEPT !.e = env] :
            r \in {TermUnify(h, env, t1, t2, occ, MaxDepth)}})

UnifyInit ==
    /\ \E seed \in UnifySeeds : \E b \in {BindAll(<<>>, NewEnv, seed, 1)} :
              /\ heap = b.h
              /\ un = [env |-> b.p, n |-> 0, occOnly |-> Acyclic(b.h, b.p),
                       crashed |-> FALSE, last |-> Idle]
    /\ held = Idle /\ rs = Idle /\ tv = Idle /\ ops = Idle /\ db = Idle
    /\ bi = Idle /\ streams = Idle /\ top = Idle /\ vm = Idle /\ gen = Idle

UnifyCall(t1, t2, occ) ==
    /\ un.n < MaxUnify
    /\ ~un.crashed
    /\ \E r \in {UnifyGoal(heap, un.env, t1, t2, occ)} :
           /\ heap' = r.h
           /\ un' = [env |-> r.e, n |-> un.n + 1, occOnly |-> un.occOnly /\ occ,
                     crashed |-> r.div,
                     last |-> [t1 |-> t1, t2 |-> t2, occ |-> occ, ok |-> r.ok,
                               div |-> r.div, pre |-> un.env,
                               preAcyclic |-> Acyclic(heap, un.env),
                               preT2 |-> Resolve(heap, un.env, t2),
                               preT1 |-> Resolve(heap, un.env, t1),
                               contains |-> \E v \in VarsOf(Resolve(heap, un.env, t2)) :
                                   Resolve(heap, un.env, t1) \in
                                       {Var(w) : w \in Reach(heap, un.env, {v}, Cardinality(UVars))},
                               saw |-> USaw(heap, un.env),
                               allocated |-> Len(r.h) - Len(heap)]]
    /\ UNCHANGED <<vm, top, gen, bi, streams, held, rs, tv, ops, db>>

UnifyNext == \E t1 \in UTerms, t2 \in UTerms, occ \in BOOLEAN : UnifyCall(t1, t2, occ)

SpecUnify == UnifyInit /\ [][UnifyNext]_vars

Called == un.last # Idle

\* C2: after a failed unification the caller's env is the env it passed in and
\* every variable has the binding it had (or is still unbound); an atom that
\* fails to unify returns without having added any binding.
C2_FailedUnifyLeavesEnv ==
    (Called /\ ~un.last.ok /\ ~un.last.div) =>
        /\ un.env = un.last.pre
        /\ USaw(heap, un.env) = un.last.saw
        /\ (IsAtom(un.last.t1) => un.last.allocated = 0)

\* A compound unification that bound its first argument and then failed.
C2_Witness ==
    /\ Called /\ ~un.last.ok /\ ~un.last.div
    /\ un.last.allocated > 0

\* C3: if unifying t1 with t2 succeeds with env', Compare(t1, t2, env') = 0
\* and Compare(t2, t1, env') = 0.
C3_UnifiedTermsCompareEqual ==
    (Called /\ un.last.ok) =>
        /\ Compare(heap, un.env, un.last.t1, un.last.t2) = 0
        /\ Compare(heap, un.env, un.last.t2, un.last.t1) = 0

\* The case of C4: an unbound variable V is unified, from an acyclic env, with
\* a compound that contains V directly or through bound variables.
OccursCase ==
    /\ Called
    /\ un.last.preAcyclic
    /\ IsVar(un.last.preT1)
    /\ IsCmp(un.last.preT2)
    /\ un.last.contains

\* C4: with the occurs check the unification of OccursCase fails and leaves
\* env unchanged, and while every unification so far used the occurs check no
\* variable is reachable from its own binding; without the occurs check the
\* unification of OccursCase succeeds and binds V to the term.
C4_OccursCheck ==
    /\ (OccursCase /\ un.last.occ) =>
          ~un.last.ok /\ ~un.last.div /\ un.env = un.last.pre
              /\ USaw(heap, un.env) = un.last.saw
    /\ (OccursCase /\ ~un.last.occ) =>
          un.last.ok /\ Lookup(heap, un.env, un.last.preT1[2]) = un.last.preT2
    /\ un.occOnly => Acyclic(heap, un.env)

\* With the occurs check, X was refused a term that contains it only through
\* the binding of Y.
C4_Witness ==
    /\ OccursCase /\ un.last.occ /\ ~un.last.ok
    /\ IsVar(un.last.t2)
    /\ un.occOnly

\* Without the occurs check the same unification made the env cyclic.
C4_WitnessNoCheck ==
    OccursCase /\ ~un.last.occ /\ un.last.ok /\ ~Acyclic(heap, un.env)


(***************************************************************************)
(* Specification SpecResolve: Env.Resolve run one loop iteration at a time *)
(* on environments built by Bind, among them environments whose variable   *)
(* bindings form a cycle.                                                  *)
(***************************************************************************)
MaxResBinds == 3

RKeys == {"X", "Y", "Z"}
RTerms == {Var("X"), Var("Y"), Var("Z"), Atom("a"), Cmp("f", <<Var("X")>>)}

IsBound(h, e, k) == Lookup(h, e, k) # NoValue

ResolveInit ==
    /\ heap = <<>>
    /\ rs = [pc |-> "idle", env |-> NewEnv, binds |-> 0, arg |-> NoValue,
             t |-> NoValue, stop |-> <<>>, ret |-> NoValue]
    /\ held = Idle /\ un = Idle /\ tv = Idle /\ ops = Idle /\ db = Idle
    /\ bi = Idle /\ streams = Idle /\ top = Idle /\ vm = Idle /\ gen = Idle

\* env = env.Bind(k, v) between two calls of Resolve
ResolveBind(k, v) ==
    /\ rs.pc = "idle"
    /\ rs.binds < MaxResBinds
    /\ ~IsBound(heap, rs.env, k)
    /\ \E b \in {Bind(heap, rs.env, k, v)} :
           /\ heap' = b.h
           /\ rs' = [rs EXCEPT !.env = b.p, !.binds = @ + 1]
    /\ UNCHANGED <<vm, top, gen, bi, streams, held, un, tv, ops, db>>

\* env.Resolve(t) is entered: var stop []Variable
ResolveCall(t) ==
    /\ rs.pc = "idle"
    /\ rs' = [rs EXCEPT !.pc = "loop", !.arg = t, !.t = t, !.stop = <<>>, !.ret = NoValue]
    /\ UNCHANGED <<vm, top, gen, bi, streams, heap, held, un, tv, ops, db>>

\* one iteration of for t != nil { ... }
ResolveIter ==
    /\ rs.pc = "loop"
    /\ \E n \in {ResolveLoop(heap, rs.env, [t |-> rs.t, stop |-> rs.stop, done |-> FALSE])} :
           rs' = IF n.done THEN [rs EXCEPT !.pc = "done", !.ret = n.t]
                 ELSE [rs EXCEPT !.t = n.t, !.stop = n.stop]
    /\ UNCHANGED <<vm, top, gen, bi, streams, heap, held, un, tv, ops, db>>

\* the caller takes the result
ResolveReturn ==
    /\ rs.pc = "done"
    /\ rs' = [rs EXCEPT !.pc = "idle"]
    /\ UNCHANGED <<vm, top, gen, bi, streams, heap, held, un, tv, ops, db>>

ResolveNext ==
    \/ \E k \in RKeys, v \in RTerms : ResolveBind(k, v)
    \/ \E t \in RTerms : ResolveCall(t)
    \/ ResolveIter
    \/ ResolveReturn

SpecResolve == ResolveInit /\ [][ResolveNext]_vars

\* The binding chain of t: t, what t is bound to, what that is bound to, ...
\* (a term that is no bound variable follows itself).
ChainOf(h, e, t) ==
    LET c[i \in 0..Cardinality(RKeys) + 1] ==
            IF i = 0 THEN t
            ELSE IF IsVar(c[i - 1]) /\ IsBound(h, e, c[i - 1][2])
                THEN Lookup(h, e, c[i - 1][2])
            ELSE c[i - 1]
    IN  c

\* Where a walk of the chain ends: at a non-variable, at an unbound variable,
\* or at a variable that was reached before.
EndsAt(h, e, c, i) ==
    \/ ~IsVar(c[i])
    \/ ~IsBound(h, e, c[i][2])
    \/ \E j \in 0..(i - 1) : c[j] = c[i]

ChainEnd(h, e, t) ==
    LET c == ChainOf(h, e, t)
        i == CHOOSE i \in DOMAIN c :
                 EndsAt(h, e, c, i) /\ \A j \in 0..(i - 1) : ~EndsAt(h, e, c, j)
    IN  c[i]

NoRepeat(q) == \A i, j \in 1..Len(q) : q[i] = q[j] => i = j

\* C5: Env.Resolve terminates on every environment, cyclic ones included (its
\* loop appends a different bound variable to stop each time round, so it runs
\* at most once more than there are bound variables), and it returns t itself
\* when t is no variable, else the first non-variable on the binding chain,
\* else the unbound variable ending the chain, else the first variable that
\* is reached a second time.
C5_ResolveTerminates ==
    /\ rs.pc = "loop" =>
          /\ NoRepeat(rs.stop)
          /\ \A i \in 1..Len(rs.stop) : IsVar(rs.stop[i]) /\ IsBound(heap, rs.env, rs.stop[i][2])
          /\ Len(rs.stop) <= Cardinality({k \in RKeys : IsBound(heap, rs.env, k)})
    /\ rs.pc = "done" => rs.ret = ChainEnd(heap, rs.env, rs.arg)

\* Resolve returned from a cycle of three variables: the variable it was given.
C5_Witness ==
    /\ rs.pc = "done"
    /\ IsVar(rs.ret) /\ IsBound(heap, rs.env, rs.ret[2])
    /\ Len(rs.stop) = 3
    /\ rs.ret = rs.arg


(***************************************************************************)
(* Specification SpecTraverse: the deep traversals of a term (Env.Simplify,*)
(* copyTerm, Env.appendFreeVariables, Contains, Compare) run one call or   *)
(* return at a time on the Go stack, in environments left by =/2.          *)
(* A frame is [fn, t, s, i, acc]: the function, its term argument(s), the  *)
(* argument it is working on (0 on entry) and what it has built so far.    *)
(***************************************************************************)
MaxTvUnify == 1
MaxTvCalls == 1

TvTerms == {Var("X"), Var("Y"), Atom("a"), Cmp("f", <<Var("X")>>), Cmp("f", <<Var("Y"), Atom("a")>>)}
TvUnary == {"Simplify", "copyTerm", "appendFreeVariables"}
TvBinary == {"Contains", "Compare"}

\* NewVariable: fmt.Sprintf("_%d", varCounter)
VarName(n) == <<"_1", "_2", "_3", "_4", "_5">>[n]

Frame(fn, t, s, acc) == [fn |-> fn, t |-> t, s |-> s, i |-> 0, acc |-> acc]

Top(m) == m.stack[Len(m.stack)]

\* The top frame moves on to argument i having built acc, and calls fr; the
\* goroutine stack is MaxDepth frames deep at most.
Call(m, i, acc, fr) ==
    IF Len(m.stack) >= MaxDepth THEN [m EXCEPT !.pc = "overflow"]
    ELSE [m EXCEPT !.stack = Append([m.stack EXCEPT ![Len(m.stack)] =
                                         [@ EXCEPT !.i = i, !.acc = acc]], fr)]

\* The top frame returns val to its caller.
Return(m, val) ==
    [m EXCEPT !.stack = SubSeq(m.stack, 1, Len(m.stack) - 1),
              !.ret = val,
              !.pc = IF Len(m.stack) = 1 THEN "done" ELSE "run"]

\* Env.Simplify
SimplifyStep(h, m) ==
    LET f == Top(m)
        r == Resolve(h, m.env, f.t)
        acc == IF f.i = 0 THEN <<>> ELSE Append(f.acc, m.ret)
    IN  IF ~IsCmp(r) THEN Return(m, r)
        ELSE IF f.i < Len(ArgsOf(r))
            THEN Call(m, f.i + 1, acc, Frame("Simplify", ArgsOf(r)[f.i + 1], NoValue, <<>>))
        ELSE Return(m, Cmp(FunctorOf(r), acc))

Renamed(vs, v) == {p \in vs : p[1] = v}

\* copyTerm, with the map vars shared by the whole traversal
copyTermStep(h, m) ==
    LET f == Top(m)
        r == Resolve(h, m.env, f.t)
        acc == IF f.i = 0 THEN <<>> ELSE Append(f.acc, m.ret)
    IN  IF IsVar(r) THEN
            IF Renamed(m.vars, r) # {} THEN Return(m, The(Renamed(m.vars, r))[2])
            ELSE Return([m EXCEPT !.counter = @ + 1,
                                  !.vars = @ \cup {<<r, Var(VarName(m.counter + 1))>>}],
                        Var(VarName(m.counter + 1)))
        ELSE IF ~IsCmp(r) THEN Return(m, r)
        ELSE IF f.i < Len(ArgsOf(r))
            THEN Call(m, f.i + 1, acc, Frame("copyTerm", ArgsOf(r)[f.i + 1], NoValue, <<>>))
        ELSE Return(m, Cmp(FunctorOf(r), acc))

\* Env.appendFreeVariables(fvs, t): acc is fvs
appendFreeVariablesStep(h, m) ==
    LET f == Top(m)
        r == Resolve(h, m.env, f.t)
        fvs == IF f.i = 0 THEN f.acc ELSE m.ret
    IN  IF IsVar(r) THEN Return(m, IF InSeq(r, fvs) THEN fvs ELSE Append(fvs, r))
        ELSE IF ~IsCmp(r) THEN Return(m, fvs)
        ELSE IF f.i < Len(ArgsOf(r))
            THEN Call(m, f.i + 1, fvs, Frame("appendFreeVariables", ArgsOf(r)[f.i + 1], NoValue, fvs))
        ELSE Return(m, fvs)

\* term.Contains(t, s, env)
ContainsStep(h, m) ==
    LET f == Top(m)
    IN  IF IsVar(f.t) THEN
            IF f.i = 1 THEN Return(m, m.ret)
            ELSE IF f.t = f.s THEN Return(m, TRUE)
            ELSE IF Lookup(h, m.env, f.t[2]) = NoValue THEN Return(m, FALSE)
            ELSE Call(m, 1, <<>>, Frame("Contains", Lookup(h, m.env, f.t[2]), f.s, <<>>))
        ELSE IF IsCmp(f.t) THEN
            IF f.i = 0 /\ IsAtom(f.s) /\ FunctorOf(f.t) = f.s[2] THEN Return(m, TRUE)
            ELSE IF f.i > 0 /\ m.ret = TRUE THEN Return(m, TRUE)
            ELSE IF f.i < Len(ArgsOf(f.t))
                THEN Call(m, f.i + 1, <<>>, Frame("Contains", ArgsOf(f.t)[f.i + 1], f.s, <<>>))
            ELSE Return(m, FALSE)
        ELSE Return(m, f.t = f.s)

\* term.Compare(a, b, env): t is a, s is b
CompareStep(h, m) ==
    LET f == Top(m)
        ra == Resolve(h, m.env, f.t)
    IN  IF ~(IsCmp(ra) /\ IsCmp(f.s)) THEN Return(m, Compare(h, m.env, f.t, f.s))
        ELSE IF f.i = 0 /\ StrCompare(FunctorOf(ra), FunctorOf(f.s)) # 0
            THEN Return(m, StrCompare(FunctorOf(ra), FunctorOf(f.s)))
        ELSE IF f.i = 0 /\ Len(ArgsOf(ra)) - Len(ArgsOf(f.s)) # 0
            THEN Return(m, Len(ArgsOf(ra)) - Len(ArgsOf(f.s)))
        ELSE IF f.i > 0 /\ m.ret # 0 THEN Return(m, m.ret)
        ELSE IF f.i < Len(ArgsOf(ra))
            THEN Call(m, f.i + 1, <<>>, Frame("Compare", ArgsOf(ra)[f.i + 1], ArgsOf(f.s)[f.i + 1], <<>>))
        ELSE Return(m, 0)

TraverseInit ==
    /\ heap = <<>>
    /\ tv = [pc |-> "idle", env |-> NewEnv, unifies |-> 0, calls |-> 0, stack |-> <<>>,
             call |-> NoValue, ret |-> NoValue, vars |-> {}, counter |-> 0]
    /\ held = Idle /\ un = Idle /\ rs = Idle /\ ops = Idle /\ db = Idle
    /\ bi = Idle /\ streams = Idle /\ top = Idle /\ vm = Idle /\ gen = Idle

\* t1 = t2 (no occurs check) succeeds and the query goes on with the new env
TraverseUnify(t1, t2) ==
    /\ tv.pc = "idle" /\ tv.calls = 0
    /\ tv.unifies < MaxTvUnify
    /\ \E r \in {UnifyGoal(heap, tv.env, t1, t2, FALSE)} :
           /\ r.ok
           /\ heap' = r.h
           /\ tv' = [tv EXCEPT !.env = r.e, !.unifies = @ + 1]
    /\ UNCHANGED <<vm, top, gen, bi, streams, held, un, rs, ops, db>>

\* env.Simplify(t), copyTerm(t, nil, env), env.FreeVariables(t)
TraverseCall(fn, t) ==
    /\ tv.pc \in {"idle", "done"}
    /\ tv.calls < MaxTvCalls
    /\ tv' = [tv EXCEPT !.pc = "run", !.calls = @ + 1, !.vars = {}, !.ret = NoValue,
                        !.call = <<fn, t>>,
                        !.stack = <<Frame(fn, t, NoValue, <<>>)>>]
    /\ UNCHANGED <<vm, top, gen, bi, streams, heap, held, un, rs, ops, db>>

\* Contains(t, s, env), Compare(t, s, env)
TraverseCall2(fn, t, s) ==
    /\ tv.pc \in {"idle", "done"}
    /\ tv.calls < MaxTvCalls
    /\ tv' = [tv EXCEPT !.pc = "run", !.calls = @ + 1, !.vars = {}, !.ret = NoValue,
                        !.call = <<fn, t, s>>,
                        !.stack = <<Frame(fn, t, s, <<>>)>>]
    /\ UNCHANGED <<vm, top, gen, bi, streams, heap, held, un, rs, ops, db>>

\* the running function takes its next step: a call, or its return
TraverseStep ==
    /\ tv.pc = "run"
    /\ tv' = CASE Top(tv).fn = "Simplify" -> SimplifyStep(heap, tv)
               [] Top(tv).fn = "copyTerm" -> copyTermStep(heap, tv)
               [] Top(tv).fn = "appendFreeVariables" -> appendFreeVariablesStep(heap, tv)
               [] Top(tv).fn = "Contains" -> ContainsStep(heap, tv)
               [] Top(tv).fn = "Compare" -> CompareStep(heap, tv)
    /\ UNCHANGED <<vm, top, gen, bi, streams, heap, held, un, rs, ops, db>>

TraverseNext ==
    \/ \E t1 \in TvTerms, t2 \in TvTerms : TraverseUnify(t1, t2)
    \/ \E fn \in TvUnary, t \in TvTerms : TraverseCall(fn, t)
    \/ \E fn \in TvBinary, t \in TvTerms, s \in TvTerms : TraverseCall2(fn, t, s)
    \/ TraverseStep

SpecTraverse == TraverseInit /\ [][TraverseNext]_vars

\* A call is active inside a call of the same function on the same arguments.
\* Which calls a traversal makes is decided by its term arguments and the env
\* alone, so the inner call repeats the outer one and neither returns.
Recurring ==
    \E i, j \in 1..Len(tv.stack) :
        /\ i < j
        /\ tv.stack[i].fn = tv.stack[j].fn
        /\ tv.stack[i].t = tv.stack[j].t
        /\ tv.stack[i].s = tv.stack[j].s

\* C6: every deep traversal of a term returns after finitely many steps, also
\* where X is bound to f(X): no traversal re-enters a call that is still
\* active, and none runs out of stack.
C6_TraversalsReturn == tv.pc = "run" => ~Recurring


(***************************************************************************)
(* Specification SpecOp: op/3 on the operator table, as VM.Op (engine) and *)
(* as Engine.Op (the earlier package) implement it.                        *)
(***************************************************************************)
MaxOps == 2

Operator(p, s, o) == [Priority |-> p, Specifier |-> s, Name |-> o]

\* term.Operator{}
ZeroOperator == Operator(0, "", "")

Specifiers == {"xf", "yf", "xfx", "xfy", "yfx", "fx", "fy"}

OpPriorities == {Integer(0), Integer(200), Integer(700), Integer(1201), Atom("foo")}
OpSpecifiers == {Atom("xfx"), Atom("fy"), Atom("zz"), Var("X")}
OpNames == {Atom("foo"), Atom("+"), Integer(200)}

\* tables sorted by descending priority that a session starts from
OpTables ==
    { <<>>,
      <<Operator(700, "xfx", "+")>>,
      <<Operator(700, "xfx", "+"), Operator(200, "fy", "+")>>,
      <<Operator(700, "xfx", "+"), Operator(700, "xfx", "foo"), Operator(200, "fy", "+")>> }

RECURSIVE SearchLoop(_, _, _, _)
\* sort.Search(len(t), func(i) { return t[i].Priority >= p }): i and j are
\* the 0-based bounds of the binary search
SearchLoop(t, p, i, j) ==
    IF i < j
    THEN IF ~(t[((i + j) \div 2) + 1].Priority >= p)
         THEN SearchLoop(t, p, ((i + j) \div 2) + 1, j)
         ELSE SearchLoop(t, p, i, (i + j) \div 2)
    ELSE i

Search(t, p) == SearchLoop(t, p, 0, Len(t))

\* copy(ops[i:], ops[i+1:]); ops[len-1] = Operator{}  on the backing array
Removed(arr, len, i) ==
    [j \in 1..Len(arr) |-> IF j < i \/ j > len THEN arr[j]
                           ELSE IF j < len THEN arr[j + 1]
                           ELSE ZeroOperator]

RECURSIVE OpScan(_, _, _, _, _, _)
\* "already defined?": the range loop runs over the slice as it was at entry
\* (its backing array arr and length Len(arr)) while the table shrinks to len
OpScan(arr, len, i, p, s, o) ==
    IF i > Len(arr) THEN [arr |-> arr, len |-> len, out |-> "insert"]
    ELSE IF arr[i].Specifier # s \/ arr[i].Name # o THEN OpScan(arr, len, i + 1, p, s, o)
    ELSE IF i > len THEN [arr |-> arr, len |-> len, out |-> "panic"]
    ELSE IF p = 0 THEN [arr |-> Removed(arr, len, i), len |-> len - 1, out |-> "return"]
    ELSE OpScan(Removed(arr, len, i), len - 1, i + 1, p, s, o)

\* insert
Inserted(t, p, s, o) ==
    SubSeq(t, 1, Search(t, p)) \o <<Operator(p, s, o)>> \o SubSeq(t, Search(t, p) + 1, Len(t))

\* the table after the scan and, unless it returned, the insert
Defined(t, p, s, o) ==
    The({ IF r.out = "return" THEN SubSeq(r.arr, 1, r.len)
          ELSE Inserted(SubSeq(r.arr, 1, r.len), p, s, o) : r \in {OpScan(t, Len(t), 1, p, s, o)} })

OpResult(t, p, s, o, res) == [table |-> t, p |-> p, s |-> s, o |-> o, res |-> res]

\* VM.Op
VMOpResult(t, priority, specifier, operator) ==
    LET p == Resolve(<<>>, NewEnv, priority)
        s == Resolve(<<>>, NewEnv, specifier)
        o == Resolve(<<>>, NewEnv, operator)
    IN  IF ~IsInteger(p) THEN OpResult(t, p, s, o, "type_error(integer)")
        ELSE IF p[2] < 0 \/ p[2] > 1200 THEN OpResult(t, p, s, o, "domain_error(operator_priority)")
        ELSE IF ~IsAtom(s) THEN OpResult(t, p, s, o, "type_error(atom)")
        ELSE IF s[2] \notin Specifiers THEN OpResult(t, p, s, o, "domain_error(operator_specifier)")
        ELSE IF ~IsAtom(o) THEN OpResult(t, p, s, o, "type_error(atom)")
        ELSE IF OpScan(t, Len(t), 1, p[2], s[2], o[2]).out = "panic" THEN OpResult(t, p, s, o, "panic")
        ELSE OpResult(Defined(t, p[2], s[2], o[2]), p, s, o, "k")

\* Engine.Op
EngineOpResult(t, precedence, typ, name) ==
    LET p == Resolve(<<>>, NewEnv, precedence)
        s == Resolve(<<>>, NewEnv, typ)
        o == Resolve(<<>>, NewEnv, name)
    IN  IF ~IsInteger(p) THEN OpResult(t, p, s, o, "invalid precedence")
        ELSE IF ~IsAtom(s) THEN OpResult(t, p, s, o, "invalid type")
        ELSE IF ~IsAtom(o) THEN OpResult(t, p, s, o, "invalid name")
        ELSE IF OpScan(t, Len(t), 1, p[2], s[2], o[2]).out = "panic" THEN OpResult(t, p, s, o, "panic")
        ELSE OpResult(Defined(t, p[2], s[2], o[2]), p, s, o, "k")

OpInit ==
    /\ \E kind \in {"VM", "Engine"}, t \in OpTables :
           ops = [kind |-> kind, operators |-> t, n |-> 0, pre |-> t,
                  last |-> OpResult(t, NoValue, NoValue, NoValue, "none")]
    /\ heap = <<>>
    /\ held = Idle /\ un = Idle /\ rs = Idle /\ tv = Idle /\ db = Idle
    /\ bi = Idle /\ streams = Idle /\ top = Idle /\ vm = Idle /\ gen = Idle

VMOp(priority, specifier, operator) ==
    /\ ops.kind = "VM"
    /\ ops.n < MaxOps
    /\ \E r \in {VMOpResult(ops.operators, priority, specifier, operator)} :
           ops' = [ops EXCEPT !.operators = r.table, !.n = @ + 1,
                              !.pre = ops.operators, !.last = r]
    /\ UNCHANGED <<vm, top, gen, bi, streams, heap, held, un, rs, tv, db>>

EngineOp(precedence, typ, name) ==
    /\ ops.kind = "Engine"
    /\ ops.n < MaxOps
    /\ \E r \in {EngineOpResult(ops.operators, precedence, typ, name)} :
           ops' = [ops EXCEPT !.operators = r.table, !.n = @ + 1,
                              !.pre = ops.operators, !.last = r]
    /\ UNCHANGED <<vm, top, gen, bi, streams, heap, held, un, rs, tv, db>>

OpNext ==
    \/ \E p \in OpPriorities, s \in OpSpecifiers, o \in OpNames : VMOp(p, s, o)
    \/ \E p \in OpPriorities, s \in OpSpecifiers, o \in OpNames : EngineOp(p, s, o)

SpecOp == OpInit /\ [][OpNext]_vars

Descending(t) == \A i \in 1..(Len(t) - 1) : t[i].Priority >= t[i + 1].Priority

\* C7: starting from a table sorted by descending priority, after any
\* sequence of successful op/3 calls every entry of the operator table has a
\* priority greater than or equal to that of the entry after it.
C7_TableDescending == Descending(ops.operators)

OpSucceeded == ops.last.res = "k"

Entries(t) == {t[i] : i \in 1..Len(t)}

Has(t, s, o) == \E x \in Entries(t) : x.Specifier = s /\ x.Name = o

Others(t, s, o) == {x \in Entries(t) : ~(x.Specifier = s /\ x.Name = o)}

OnePerKey(t) ==
    \A i, j \in 1..Len(t) : (t[i].Specifier = t[j].Specifier /\ t[i].Name = t[j].Name) => i = j

\* C8: after a successful op(0, S, N) the table has no entry for (S, N),
\* whether or not it had one; every entry has a priority in 1..1200; there
\* is at most one entry per (specifier, name); and a successful op/3 leaves
\* the entries of other (specifier, name) pairs as they were.
C8_OpZeroRemoves ==
    /\ (OpSucceeded /\ ops.last.p = Integer(0))
           => ~Has(ops.operators, ops.last.s[2], ops.last.o[2])
    /\ \A x \in Entries(ops.operators) : x.Priority \in 1..1200
    /\ OnePerKey(ops.operators)
    /\ OpSucceeded => Others(ops.operators, ops.last.s[2], ops.last.o[2])
                          = Others(ops.pre, ops.last.s[2], ops.last.o[2])


(***************************************************************************)
(* Specification SpecDb: the procedure map under asserta/1 and assertz/1   *)
(* (VM.assert, and Engine.Assertz of the earlier package), and calls of    *)
(* user-defined procedures (clauses.Call).                                 *)
(***************************************************************************)
MaxAsserts == 3

Rule(head, body) == Cmp(":-", <<head, body>>)

AssertTerms ==
    { Cmp("foo", <<Atom("a")>>), Cmp("foo", <<Atom("b")>>),
      Rule(Cmp("foo", <<Atom("c")>>), Atom("true")),
      Rule(Cmp("foo", <<Atom("a")>>), Integer(1)),
      Cmp("atom", <<Atom("a")>>),
      Rule(Cmp("atom", <<Atom("a")>>), Atom("true")),
      Cmp(":-", <<Cmp("foo", <<Var("X")>>)>>),
      Var("X") }

Goals == {Cmp("foo", <<Var("X")>>), Cmp("foo", <<Atom("a")>>)}

\* procedures: a built-in (predicate1 etc.) or clauses
Builtin == <<"builtin">>
Clauses(cs) == <<"clauses", cs>>
IsClauses(proc) == proc[1] = "clauses"

\* the procedure map of a new interpreter: its built-ins
Builtins == [pi \in {<<"atom", 1>>} |-> Builtin]

Put(m, k, v) == [x \in (DOMAIN m) \cup {k} |-> IF x = k THEN v ELSE m[x]]

Reverse(q) == [i \in 1..Len(q) |-> q[Len(q) + 1 - i]]

\* piArgs(t, env)
piArgs(t) ==
    LET r == Resolve(<<>>, NewEnv, t)
    IN  IF IsVar(r) THEN [err |-> Atom("instantiation_error"), pi |-> NoValue, args |-> <<>>]
        ELSE IF IsAtom(r) THEN [err |-> NoValue, pi |-> <<r[2], 0>>, args |-> <<>>]
        ELSE IF IsCmp(r) THEN [err |-> NoValue, pi |-> <<FunctorOf(r), Len(ArgsOf(r))>>, args |-> ArgsOf(r)]
        ELSE [err |-> Cmp("type_error", <<Atom("callable"), r>>), pi |-> NoValue, args |-> <<>>]

\* ProcedureIndicator.Term
PITerm(pi) == Cmp("/", <<Atom(pi[1]), Integer(pi[2])>>)

permissionErrorModifyStaticProcedure(culprit) ==
    Cmp("permission_error", <<Atom("modify"), Atom("static_procedure"), culprit>>)

RECURSIVE compileBody(_)
\* clause.compileBody / compilePred: every goal of the conjunction is callable
compileBody(body) ==
    LET b == Resolve(<<>>, NewEnv, body)
    IN  IF IsCmp(b) /\ FunctorOf(b) = "," /\ Len(ArgsOf(b)) = 2
        THEN IF IsInteger(Resolve(<<>>, NewEnv, ArgsOf(b)[1])) THEN FALSE
             ELSE compileBody(ArgsOf(b)[2])
        ELSE ~IsInteger(b)

\* clause.compileClause
compileClause(t, head, body) ==
    LET h == Resolve(<<>>, NewEnv, head)
    IN  IF IsVar(h) THEN [err |-> Atom("instantiation_error"), added |-> <<>>]
        ELSE IF ~(IsAtom(h) \/ IsCmp(h))
            THEN [err |-> Cmp("type_error", <<Atom("callable"), h>>), added |-> <<>>]
        ELSE IF body # NoValue /\ ~compileBody(body)
            THEN [err |-> Cmp("type_error", <<Atom("callable"), body>>), added |-> <<>>]
        ELSE [err |-> NoValue, added |-> <<[raw |-> t, head |-> h, body |-> body]>>]

\* compile(t, env)
compile(t) ==
    LET r == Resolve(<<>>, NewEnv, t)
    IN  IF IsVar(r) THEN [err |-> Atom("instantiation_error"), added |-> <<>>]
        ELSE IF IsAtom(r) THEN compileClause(r, r, NoValue)
        ELSE IF IsCmp(r) THEN
            IF FunctorOf(r) = ":-" THEN compileClause(r, ArgsOf(r)[1], ArgsOf(r)[2])
            ELSE compileClause(r, r, NoValue)
        ELSE [err |-> Cmp("type_error", <<Atom("callable"), r>>), added |-> <<>>]

\* A plausible slip: asserta's merge appends as assertz's does.
MergeAAppends(existing, new) == existing \o new

\* the merge functions of Assertz and Asserta
MergeZ(existing, new) == existing \o new
MergeA(existing, new) == new \o existing
Merge(mode, existing, new) == IF mode = "asserta" THEN MergeA(existing, new) ELSE MergeZ(existing, new)

AssertResult(m, res, stage, err, pi, added) ==
    [procedures |-> m, res |-> res, stage |-> stage, err |-> err, pi |-> pi, added |-> added]

\* VM.assert after the directive case: pi is the head's procedure indicator
assertClause(m, t, pi, mode) ==
    LET existing == IF pi \in DOMAIN m THEN m[pi] ELSE Clauses(<<>>)
    IN  IF ~IsClauses(existing)
            THEN AssertResult(m, "error", "static", permissionErrorModifyStaticProcedure(PITerm(pi)), pi, <<>>)
        ELSE IF compile(t).err # NoValue
            THEN AssertResult(m, "error", "compile", compile(t).err, pi, <<>>)
        ELSE AssertResult(Put(m, pi, Clauses(Merge(mode, existing[2], compile(t).added))),
                          "k", "merge", NoValue, pi, compile(t).added)

\* VM.assert
assert(m, t, mode) ==
    LET a == piArgs(t)
    IN  IF a.err # NoValue THEN AssertResult(m, "error", "piArgs", a.err, NoValue, <<>>)
        ELSE IF a.pi = <<":-", 1>> THEN
            IF piArgs(a.args[1]).err # NoValue
            THEN AssertResult(m, "error", "piArgs", piArgs(a.args[1]).err, NoValue, <<>>)
            ELSE AssertResult(m, "arrive", "directive", NoValue, piArgs(a.args[1]).pi, <<>>)
        ELSE IF a.pi = <<":-", 2>> THEN
            IF piArgs(a.args[1]).err # NoValue
            THEN AssertResult(m, "error", "piArgs", piArgs(a.args[1]).err, NoValue, <<>>)
            ELSE assertClause(m, t, piArgs(a.args[1]).pi, mode)
        ELSE assertClause(m, t, a.pi, mode)

\* Engine.Assertz
EngineAssertzResult(m, t) ==
    LET r == Resolve(<<>>, NewEnv, t)
        head == IF IsCmp(r) /\ FunctorOf(r) = ":-" /\ Len(ArgsOf(r)) = 2 THEN ArgsOf(r)[1] ELSE r
        pi == IF IsAtom(head) THEN <<head[2], 0>>
              ELSE IF IsCmp(head) THEN <<FunctorOf(head), Len(ArgsOf(head))>> ELSE NoValue
        existing == IF pi \in DOMAIN m THEN m[pi] ELSE Clauses(<<>>)
    IN  IF ~(IsAtom(r) \/ IsCmp(r)) THEN AssertResult(m, "error", "not a clause", <<"error", "not a clause">>, NoValue, <<>>)
        ELSE IF IsCmp(r) /\ FunctorOf(r) = ":-" /\ Len(ArgsOf(r)) = 1
            THEN AssertResult(m, "arrive", "directive", NoValue, NoValue, <<>>)
        ELSE IF pi = NoValue THEN AssertResult(m, "error", "not a clause", <<"error", "not a clause">>, NoValue, <<>>)
        ELSE IF ~IsClauses(existing) THEN AssertResult(m, "error", "static", <<"error", "builtin">>, pi, <<>>)
        ELSE IF compile(t).err # NoValue THEN AssertResult(m, "error", "compile", compile(t).err, pi, <<>>)
        ELSE AssertResult(Put(m, pi, Clauses(existing[2] \o compile(t).added)),
                          "k", "merge", NoValue, pi, compile(t).added)

\* vm.exec of a clause on the goal's arguments: the head unifies (the bodies
\* asserted here are true)
Solves(c, goal) == UnifyGoal(<<>>, NewEnv, c.head, goal, FALSE).ok

NoCall == [pc |-> "idle", goal |-> NoValue, ks |-> <<>>, order |-> <<>>,
           tried |-> <<>>, sols |-> <<>>, stopped |-> FALSE]

\* the order the clauses of pi were added in: asserta's, latest first, then assertz's
AddedOrder(d, pi) == Reverse(d.addedA[pi]) \o d.addedZ[pi]

\* clauses.Call: one alternative per clause, in the order of cs
clausesCall(d, goal, cs) ==
    [pc |-> IF Len(cs) = 0 THEN "done" ELSE "run", goal |-> goal, ks |-> cs,
     order |-> AddedOrder(d, piArgs(goal).pi), tried |-> <<>>, sols |-> <<>>, stopped |-> FALSE]

DbPIs == {<<"foo", 1>>, <<"atom", 1>>}

DbInit ==
    /\ \E kind \in {"VM", "Engine"} :
           db = [kind |-> kind, procedures |-> Builtins, n |-> 0,
                 addedA |-> [pi \in DbPIs |-> <<>>], addedZ |-> [pi \in DbPIs |-> <<>>],
                 pre |-> Builtins, mode |-> "none", t |-> NoValue,
                 last |-> AssertResult(Builtins, "none", "none", NoValue, NoValue, <<>>),
                 call |-> NoCall]
    /\ heap = <<>>
    /\ held = Idle /\ un = Idle /\ rs = Idle /\ tv = Idle /\ ops = Idle
    /\ bi = Idle /\ streams = Idle /\ top = Idle /\ vm = Idle /\ gen = Idle

\* the state after asserta/assertz returned r
Asserted(t, mode, r) ==
    [db EXCEPT !.procedures = r.procedures, !.n = @ + 1,
               !.pre = db.procedures, !.mode = mode, !.t = t, !.last = r,
               !.addedA = IF r.res = "k" /\ mode = "asserta"
                          THEN [@ EXCEPT ![r.pi] = @ \o r.added] ELSE @,
               !.addedZ = IF r.res = "k" /\ mode = "assertz"
                          THEN [@ EXCEPT ![r.pi] = @ \o r.added] ELSE @,
               !.call = IF r.res = "arrive" /\ db.kind = "VM" /\ r.pi \in DOMAIN db.procedures
                           /\ IsClauses(db.procedures[r.pi])
                        THEN clausesCall(db, piArgs(t).args[1], db.procedures[r.pi][2])
                        ELSE @]

Assertz(t) ==
    /\ db.kind = "VM" /\ db.n < MaxAsserts /\ db.call.pc # "run"
    /\ \E r \in {assert(db.procedures, t, "assertz")} : db' = Asserted(t, "assertz", r)
    /\ UNCHANGED <<vm, top, gen, bi, streams, heap, held, un, rs, tv, ops>>

Asserta(t) ==
    /\ db.kind = "VM" /\ db.n < MaxAsserts /\ db.call.pc # "run"
    /\ \E r \in {assert(db.procedures, t, "asserta")} : db' = Asserted(t, "asserta", r)
    /\ UNCHANGED <<vm, top, gen, bi, streams, heap, held, un, rs, tv, ops>>

EngineAssertz(t) ==
    /\ db.kind = "Engine" /\ db.n < MaxAsserts
    /\ \E r \in {EngineAssertzResult(db.procedures, t)} : db' = Asserted(t, "assertz", r)
    /\ UNCHANGED <<vm, top, gen, bi, streams, heap, held, un, rs, tv, ops>>

\* a goal arrives at a user-defined procedure
Arrive(goal) ==
    /\ db.kind = "VM" /\ db.call.pc # "run"
    /\ piArgs(goal).pi \in DOMAIN db.procedures
    /\ IsClauses(db.procedures[piArgs(goal).pi])
    /\ db' = [db EXCEPT !.call = clausesCall(db, goal, db.procedures[piArgs(goal).pi][2])]
    /\ UNCHANGED <<vm, top, gen, bi, streams, heap, held, un, rs, tv, ops>>

\* the next alternative of the Delay runs: the clause is tried; if it solves
\* the goal the continuation gets the solution, and either takes it (stop)
\* or fails, which brings up the alternative after it
Redo(stop) ==
    /\ db.call.pc = "run"
    /\ \E c \in {Head(db.call.ks)} :
         db' = [db EXCEPT !.call =
                  [@ EXCEPT !.tried = Append(@, c),
                            !.sols = IF Solves(c, db.call.goal) THEN Append(@, c) ELSE @,
                            !.ks = Tail(@),
                            !.stopped = Solves(c, db.call.goal) /\ stop,
                            !.pc = IF (Solves(c, db.call.goal) /\ stop) \/ Len(db.call.ks) = 1
                                   THEN "done" ELSE "run"]]
    /\ UNCHANGED <<vm, top, gen, bi, streams, heap, held, un, rs, tv, ops>>

DbNext ==
    \/ \E t \in AssertTerms : Assertz(t)
    \/ \E t \in AssertTerms : Asserta(t)
    \/ \E t \in AssertTerms : EngineAssertz(t)
    \/ \E goal \in Goals : Arrive(goal)
    \/ \E stop \in BOOLEAN : Redo(stop)

SpecDb == DbInit /\ [][DbNext]_vars

IsPrefix(p, q) == Len(p) <= Len(q) /\ p = SubSeq(q, 1, Len(p))

RECURSIVE Solutions(_, _)
Solutions(cs, goal) ==
    IF cs = <<>> THEN <<>>
    ELSE IF Solves(Head(cs), goal) THEN <<Head(cs)>> \o Solutions(Tail(cs), goal)
    ELSE Solutions(Tail(cs), goal)

\* C9: the clauses of a procedure stand in the order "asserta-added, latest
\* first, then assertz-added, earliest first"; a call tries them in that
\* order, all of them unless the continuation took a solution, and hands the
\* continuation the solutions in that order.
C9_ClauseOrder ==
    /\ \A pi \in DOMAIN db.procedures :
           IsClauses(db.procedures[pi]) => db.procedures[pi][2] = AddedOrder(db, pi)
    /\ db.call.pc # "idle" =>
           /\ IsPrefix(db.call.tried, db.call.order)
           /\ db.call.sols = Solutions(db.call.tried, db.call.goal)
           /\ (db.call.pc = "done" /\ ~db.call.stopped) => db.call.tried = db.call.order

C9_Witness ==
    /\ db.call.pc = "done" /\ ~db.call.stopped
    /\ Len(db.addedA[<<"foo", 1>>]) = 2 /\ Len(db.addedZ[<<"foo", 1>>]) = 1
    /\ db.addedA[<<"foo", 1>>][1] # db.addedA[<<"foo", 1>>][2]
    /\ Len(db.call.tried) = 3 /\ Len(db.call.sols) >= 2

AssertedOnBuiltin ==
    /\ db.last.stage \notin {"none", "piArgs", "directive", "not a clause"}
    /\ db.last.pi \in DOMAIN db.pre
    /\ db.pre[db.last.pi] = Builtin

\* C10: assertz/asserta of a clause whose head names a built-in returns
\* permission_error(modify, static_procedure, PI), does not invoke the
\* continuation and leaves the procedure map unchanged; the map is unchanged
\* as well when the clause does not compile.
C10_AssertOnBuiltin ==
    /\ AssertedOnBuiltin =>
           /\ db.last.err = permissionErrorModifyStaticProcedure(PITerm(db.last.pi))
           /\ db.last.res = "error"
           /\ db.procedures = db.pre
    /\ db.last.stage = "compile" => db.procedures = db.pre


(***************************************************************************)
(* Specification SpecRetract: retract/1 (VM.Retract) on a database built   *)
(* by assertz/1.  The continuation k is an input: what it answers at its   *)
(* first, second, ... invocation.                                          *)
(***************************************************************************)
MaxDbOps == 3
MaxKCalls == 2

\* term.Rulify
Rulify(h, e, t) ==
    The({ IF IsCmp(r) /\ FunctorOf(r) = ":-" /\ Len(ArgsOf(r)) = 2 THEN r
          ELSE Cmp(":-", <<r, Atom("true")>>) : r \in {Resolve(h, e, t)} })

RetractClauses ==
    { Cmp("foo", <<Atom("a")>>), Cmp("foo", <<Atom("b")>>), Cmp("foo", <<Var("X")>>),
      Rule(Cmp("foo", <<Atom("a")>>), Atom("true")), Cmp("bar", <<Atom("a")>>) }

RetractTerms == RetractClauses \cup {Cmp("atom", <<Atom("a")>>), Var("Y"), Integer(1)}

\* what k(env).Force(ctx) answers at each of its invocations; "false" after those
KOutcomes == [1..MaxKCalls -> {"true", "false", "error"}]

KOutcome(kouts, j) == IF j \in DOMAIN kouts THEN kouts[j] ELSE "false"

\* t.Unify(raw, false, env) in the env retract was called with (the empty one)
RuleUnifies(t, c) == UnifyGoal(<<>>, NewEnv, t, Rulify(<<>>, NewEnv, c.raw), FALSE).ok

RECURSIVE RetractLoop(_, _, _, _, _, _)
\* the for loop of the delayed function: kcalls lists the clauses k was
\* invoked on; updated is what the deferred function stores
RetractLoop(cs, i, updated, t, kouts, kcalls) ==
    IF i > Len(cs) THEN [updated |-> updated, res |-> "false", kcalls |-> kcalls]
    ELSE IF ~RuleUnifies(t, cs[i])
        THEN RetractLoop(cs, i + 1, Append(updated, cs[i]), t, kouts, kcalls)
    ELSE IF KOutcome(kouts, Len(kcalls) + 1) = "error"
        THEN [updated |-> updated \o SubSeq(cs, i + 1, Len(cs)), res |-> "error",
              kcalls |-> Append(kcalls, i)]
    ELSE IF KOutcome(kouts, Len(kcalls) + 1) = "true"
        THEN [updated |-> updated \o SubSeq(cs, i + 1, Len(cs)), res |-> "true",
              kcalls |-> Append(kcalls, i)]
    ELSE RetractLoop(cs, i + 1, updated, t, kouts, Append(kcalls, i))

RetractResult(m, res, stage, err, pi, kcalls) ==
    [procedures |-> m, res |-> res, stage |-> stage, err |-> err, pi |-> pi, kcalls |-> kcalls]

\* VM.Retract
RetractOutcome(m, t, kouts) ==
    LET r == Rulify(<<>>, NewEnv, t)
        a == piArgs(ArgsOf(r)[1])
    IN  IF a.err # NoValue THEN RetractResult(m, "error", "piArgs", a.err, NoValue, <<>>)
        ELSE IF a.pi \notin DOMAIN m THEN RetractResult(m, "false", "unknown", NoValue, a.pi, <<>>)
        ELSE IF ~IsClauses(m[a.pi])
            THEN RetractResult(m, "error", "static",
                               permissionErrorModifyStaticProcedure(PITerm(a.pi)), a.pi, <<>>)
        ELSE The({ RetractResult(Put(m, a.pi, Clauses(l.updated)), l.res, "loop",
                                 IF l.res = "error" THEN Atom("k's error") ELSE NoValue,
                                 a.pi, l.kcalls) :
                   l \in {RetractLoop(m[a.pi][2], 1, <<>>, r, kouts, <<>>)} })

NoDbOp == [op |-> "none", t |-> NoValue, res |-> "none", stage |-> "none", err |-> NoValue,
           pi |-> NoValue, kcalls |-> <<>>, pre |-> Builtins]

RetractInit ==
    /\ db = [procedures |-> Builtins, n |-> 0, last |-> NoDbOp, prev |-> NoDbOp]
    /\ heap = <<>>
    /\ held = Idle /\ un = Idle /\ rs = Idle /\ tv = Idle /\ ops = Idle
    /\ bi = Idle /\ streams = Idle /\ top = Idle /\ vm = Idle /\ gen = Idle

\* assertz(t), with a continuation that succeeds
RetractAssertz(t) ==
    /\ db.n < MaxDbOps
    /\ \E r \in {assert(db.procedures, t, "assertz")} :
         db' = [procedures |-> r.procedures, n |-> db.n + 1, prev |-> db.last,
                last |-> [op |-> "assertz", t |-> t, res |-> r.res, stage |-> r.stage,
                          err |-> r.err, pi |-> r.pi, kcalls |-> <<>>,
                          pre |-> db.procedures]]
    /\ UNCHANGED <<vm, top, gen, heap, held, un, rs, tv, ops, bi, streams>>

\* retract(t) forced to its end, with continuation kouts
Retract(t, kouts) ==
    /\ db.n < MaxDbOps
    /\ \E r \in {RetractOutcome(db.procedures, t, kouts)} :
         db' = [procedures |-> r.procedures, n |-> db.n + 1, prev |-> db.last,
                last |-> [op |-> "retract", t |-> t, res |-> r.res, stage |-> r.stage,
                          err |-> r.err, pi |-> r.pi, kcalls |-> r.kcalls,
                          pre |-> db.procedures]]
    /\ UNCHANGED <<vm, top, gen, heap, held, un, rs, tv, ops, bi, streams>>

RetractNext ==
    \/ \E t \in RetractClauses : RetractAssertz(t)
    \/ \E t \in RetractTerms, kouts \in KOutcomes : Retract(t, kouts)

SpecRetract == RetractInit /\ [][RetractNext]_vars

Count(x, q) == Cardinality({i \in 1..Len(q) : q[i] = x})

RuleForms(cs) == [i \in 1..Len(cs) |-> Rulify(<<>>, NewEnv, cs[i].raw)]

SameClauses(cs1, cs2) ==
    /\ Len(cs1) = Len(cs2)
    /\ \A i \in 1..Len(cs1) : Count(RuleForms(cs1)[i], RuleForms(cs1)) = Count(RuleForms(cs1)[i], RuleForms(cs2))

AssertzThenRetract ==
    /\ db.last.op = "retract" /\ db.last.res = "true" /\ Len(db.last.kcalls) = 1
    /\ db.prev.op = "assertz" /\ db.prev.res = "k"
    /\ db.prev.t = db.last.t

\* C11: assertz(C) followed by retract(C) leaves every procedure with the
\* multiset of clauses it had before the assertz, and leaves no procedure
\* indicator defined that had no entry before.
C11_AssertzRetractRestores ==
    AssertzThenRetract =>
        /\ DOMAIN db.procedures = DOMAIN db.prev.pre
        /\ \A pi \in (DOMAIN db.procedures) \cap (DOMAIN db.prev.pre) :
               IsClauses(db.procedures[pi]) => SameClauses(db.procedures[pi][2], db.prev.pre[pi][2])

Unifying(t, cs) == {i \in 1..Len(cs) : RuleUnifies(Rulify(<<>>, NewEnv, t), cs[i])}

Without(cs, i) == SubSeq(cs, 1, i - 1) \o SubSeq(cs, i + 1, Len(cs))

Min(S) == CHOOSE x \in S : \A y \in S : x <= y

\* C12: a retract(T) that succeeds removes exactly the first clause whose
\* rule form unifies with T's and keeps the others in order; a retract that
\* fails (no clause unifies, or the continuation fails for every unifying
\* clause) leaves the clause list as it was.
C12_RetractRemovesFirst ==
    (db.last.op = "retract" /\ db.last.stage = "loop") =>
        LET cs == db.last.pre[db.last.pi][2]
        IN  /\ db.last.res = "true" =>
                /\ Unifying(db.last.t, cs) # {}
                /\ db.procedures[db.last.pi][2] = Without(cs, Min(Unifying(db.last.t, cs)))
            /\ db.last.res = "false" => db.procedures = db.last.pre


(***************************************************************************)
(* Solving a goal against a database of clauses, and the pure forms of     *)
(* the deep operations of term.Env that the built-ins use.                 *)
(***************************************************************************)
RECURSIVE Simplify(_, _, _, _)
\* Env.Simplify; <<"div">> stands for a recursion deeper than the stack
Simplify(h, e, t, depth) ==
    IF depth = 0 THEN <<"div">>
    ELSE The({ IF IsCmp(r)
               THEN Cmp(FunctorOf(r), [i \in 1..Len(ArgsOf(r)) |-> Simplify(h, e, ArgsOf(r)[i], depth - 1)])
               ELSE r : r \in {Resolve(h, e, t)} })

RECURSIVE appendFreeVariables(_, _, _, _, _)
RECURSIVE appendFreeVariablesArgs(_, _, _, _, _, _)
\* Env.appendFreeVariables
appendFreeVariables(h, e, fvs, t, depth) ==
    IF depth = 0 THEN fvs
    ELSE The({ IF IsVar(r) THEN (IF InSeq(r, fvs) THEN fvs ELSE Append(fvs, r))
               ELSE IF IsCmp(r) THEN appendFreeVariablesArgs(h, e, fvs, ArgsOf(r), 1, depth - 1)
               ELSE fvs : r \in {Resolve(h, e, t)} })

appendFreeVariablesArgs(h, e, fvs, args, i, depth) ==
    IF i > Len(args) THEN fvs
    ELSE appendFreeVariablesArgs(h, e, appendFreeVariables(h, e, fvs, args[i], depth), args, i + 1, depth)

\* Env.FreeVariables(ts...)
FreeVariables(h, e, ts) == appendFreeVariablesArgs(h, e, <<>>, ts, 1, MaxDepth)

\* Variables.Except
Except(vs, ws) == SelectSeq(vs, LAMBDA v : ~InSeq(v, ws))

RECURSIVE List(_)
\* term.List(ts...)
List(ts) == IF ts = <<>> THEN Atom("[]") ELSE Cmp(".", <<Head(ts), List(Tail(ts))>>)

RECURSIVE ListElems(_, _, _, _)
\* Each(list, f, env): the elements of a proper list, in order
ListElems(h, e, l, depth) ==
    IF depth = 0 THEN <<>>
    ELSE The({ IF IsCmp(r) /\ FunctorOf(r) = "." /\ Len(ArgsOf(r)) = 2
               THEN <<ArgsOf(r)[1]>> \o ListElems(h, e, ArgsOf(r)[2], depth - 1)
               ELSE <<>> : r \in {Resolve(h, e, l)} })

\* Atom.Apply(args...)
Apply(name, args) == IF args = <<>> THEN Atom(name) ELSE Cmp(name, args)

Throwing(ball) == Cmp("throw", <<ball>>)

RECURSIVE copyTerm(_, _, _, _, _, _)
RECURSIVE copyTermArgs(_, _, _, _, _, _, _, _)
\* copyTerm(t, vars, env); counter is varCounter.  The result is the copy,
\* with the map and the counter as the call leaves them.
copyTerm(h, e, t, vs, counter, depth) ==
    IF depth = 0 THEN [t |-> <<"div">>, vars |-> vs, counter |-> counter]
    ELSE The({ IF IsVar(r) THEN
                   (IF Renamed(vs, r) # {}
                    THEN [t |-> The(Renamed(vs, r))[2], vars |-> vs, counter |-> counter]
                    ELSE [t |-> Var(VarName(counter + 1)),
                          vars |-> vs \cup {<<r, Var(VarName(counter + 1))>>},
                          counter |-> counter + 1])
               ELSE IF IsCmp(r) THEN copyTermArgs(h, e, FunctorOf(r), ArgsOf(r), 1, <<>>,
                                                  [t |-> r, vars |-> vs, counter |-> counter], depth - 1)
               ELSE [t |-> r, vars |-> vs, counter |-> counter] :
               r \in {Resolve(h, e, t)} })

copyTermArgs(h, e, f, args, i, done, acc, depth) ==
    IF i > Len(args) THEN [acc EXCEPT !.t = Cmp(f, done)]
    ELSE The({ copyTermArgs(h, e, f, args, i + 1, Append(done, c.t), c, depth) :
               c \in {copyTerm(h, e, args[i], acc.vars, acc.counter, depth)} })

\* Throw(ball, _, env): the error it returns; [exception |-> TRUE] is an *Exception
Exception(t) == [exception |-> TRUE, term |-> t]

Throw(h, e, ball) ==
    IF IsVar(Resolve(h, e, ball)) THEN Exception(Atom("instantiation_error"))
    ELSE Exception(copyTerm(h, e, Resolve(h, e, ball), {}, 0, MaxDepth).t)

NoError == [exception |-> FALSE, term |-> NoValue]

Solved(h, sols, err, eenv) == [h |-> h, sols |-> sols, err |-> err, eenv |-> eenv]

RECURSIVE SolveClauses(_, _, _, _, _)
\* clauses.Call on facts and on clauses whose body throws: the envs of the
\* solutions in clause order, up to the first error; eenv is the env the
\* error was raised in
SolveClauses(h, e, cs, i, goal) ==
    IF i > Len(cs) THEN Solved(h, <<>>, NoError, e)
    ELSE The({ IF ~u.ok THEN SolveClauses(h, e, cs, i + 1, goal)
               ELSE IF IsCmp(cs[i].body) /\ FunctorOf(cs[i].body) = "throw"
                   THEN Solved(u.h, <<>>, Throw(u.h, u.e, ArgsOf(cs[i].body)[1]), u.e)
               ELSE The({ [r EXCEPT !.sols = <<u.e>> \o @] :
                          r \in {SolveClauses(u.h, e, cs, i + 1, goal)} }) :
               u \in {UnifyGoal(h, e, cs[i].head, goal, FALSE)} })

RECURSIVE Solve(_, _, _, _, _)
\* VM.Call(goal, k, env) with a k that asks for every solution
Solve(h, e, cs, goal, depth) ==
    LET g == Resolve(h, e, goal)
    IN  IF depth = 0 \/ IsVar(g) THEN Solved(h, <<>>, Exception(Atom("instantiation_error")), e)
        ELSE IF g = Atom("fail") THEN Solved(h, <<>>, NoError, e)
        ELSE IF g = Atom("true") THEN Solved(h, <<e>>, NoError, e)
        ELSE IF IsCmp(g) /\ FunctorOf(g) = "^" /\ Len(ArgsOf(g)) = 2
            THEN Solve(h, e, cs, ArgsOf(g)[2], depth - 1)
        ELSE IF IsCmp(g) /\ FunctorOf(g) = "throw" /\ Len(ArgsOf(g)) = 1
            THEN Solved(h, <<>>, Throw(h, e, ArgsOf(g)[1]), e)
        ELSE IF IsInteger(g)
            THEN Solved(h, <<>>, Exception(Cmp("type_error", <<Atom("callable"), g>>)), e)
        ELSE SolveClauses(h, e, SelectSeq(cs, LAMBDA c : piArgs(c.head).pi = piArgs(g).pi), 1, g)

BuiltinResult(h, e, res, err) == [h |-> h, e |-> e, res |-> res, err |-> err]

\* Unify(t1, t2, k, env) where k succeeds: what the caller of the built-in gets
UnifyThenK(h, env, t1, t2) ==
    The({ IF u.ok THEN BuiltinResult(u.h, u.e, "k", NoError)
          ELSE BuiltinResult(u.h, env, "false", NoError) :
          u \in {UnifyGoal(h, env, t1, t2, FALSE)} })

\* A plausible slip: k gets the env of the goal's last solution.
FindAllOutcomeLeaky(h, env, cs, template, goal, instances) ==
    The({ IF s.err # NoError THEN BuiltinResult(s.h, env, "error", s.err)
          ELSE UnifyThenK(s.h, IF s.sols = <<>> THEN env ELSE s.sols[Len(s.sols)], instances,
                          List([i \in 1..Len(s.sols) |-> Simplify(s.h, s.sols[i], template, MaxDepth)])) :
          s \in {Solve(h, env, cs, goal, MaxDepth)} })

\* VM.FindAll
FindAllOutcome(h, env, cs, template, goal, instances) ==
    The({ IF s.err # NoError THEN BuiltinResult(s.h, env, "error", s.err)
          ELSE UnifyThenK(s.h, env, instances,
                          List([i \in 1..Len(s.sols) |-> Simplify(s.h, s.sols[i], template, MaxDepth)])) :
          s \in {Solve(h, env, cs, goal, MaxDepth)} })


(***************************************************************************)
(* Specification SpecCollect: findall/3 and bagof/3 called in an env the   *)
(* query has reached, against a database of clauses for p/2.               *)
(***************************************************************************)
MaxCollects == 1

P(x, y) == Cmp("p", <<x, y>>)

Clause(t) == compile(t).added[1]

CollectDbs ==
    { <<>>,
      <<Clause(P(Atom("a"), Atom("b")))>>,
      <<Clause(P(Atom("a"), Atom("b"))), Clause(P(Atom("b"), Atom("b"))), Clause(P(Atom("a"), Atom("b")))>>,
      <<Clause(P(Atom("b"), Atom("c"))), Clause(P(Atom("a"), Atom("b"))), Clause(P(Atom("c"), Atom("c")))>>,
      <<Clause(P(Atom("a"), Atom("b"))), Clause(Rule(P(Atom("c"), Atom("c")), Throwing(Atom("a")))),
        Clause(P(Atom("b"), Atom("b")))>> }

CollectSeeds == { <<>>, << <<"Y", Atom("b")>> >> }

CollectTemplates == {Var("X"), Cmp("f", <<Var("X"), Var("Y")>>), Atom("t")}

CollectGoals ==
    { P(Var("X"), Var("Y")), P(Var("X"), Atom("b")),
      Cmp("^", <<Var("Y"), P(Var("X"), Var("Y"))>>),
      Cmp("^", <<Var("X"), Cmp("^", <<Var("Y"), P(Var("X"), Var("Y"))>>)>>),
      Var("G"), Atom("fail") }

CollectInstances == {Var("L"), List(<<Atom("a")>>), Var("X")}

CollectVars == {"X", "Y", "L", "G", "Answers"}

NoCollect == [fn |-> "none", template |-> NoValue, goal |-> NoValue, instances |-> NoValue,
              alts |-> <<>>, err |-> NoError]

CollectInit ==
    /\ \E cs \in CollectDbs, seed \in CollectSeeds : \E b \in {BindAll(<<>>, NewEnv, seed, 1)} :
           /\ heap = b.h
           /\ bi = [cs |-> cs, h0 |-> b.h, env |-> b.p, n |-> 0, last |-> NoCollect]
    /\ held = Idle /\ un = Idle /\ rs = Idle /\ tv = Idle /\ ops = Idle /\ db = Idle
    /\ streams = Idle /\ top = Idle /\ vm = Idle /\ gen = Idle

\* findall(template, goal, instances) with a continuation that succeeds:
\* alts lists the envs the continuation is invoked with
FindAll(template, goal, instances) ==
    /\ bi.n < MaxCollects
    /\ \E r \in {FindAllOutcome(bi.h0, bi.env, bi.cs, template, goal, instances)} :
         /\ heap' = r.h
         /\ bi' = [bi EXCEPT !.n = @ + 1,
                     !.last = [fn |-> "FindAll", template |-> template, goal |-> goal,
                               instances |-> instances,
                               alts |-> IF r.res = "k" THEN <<r.e>> ELSE <<>>,
                               err |-> r.err]]
    /\ UNCHANGED <<vm, top, gen, held, un, rs, tv, ops, db, streams>>


RECURSIVE GroupLoop(_, _, _, _, _)
\* the callback of Each(answers, ...): an answer joins the first solution
\* whose vars compare equal to its own, or starts a new one
GroupLoop(h, e, elems, i, sols) ==
    IF i > Len(elems) THEN sols
    ELSE LET v == ArgsOf(elems[i])[1]
             inst == ArgsOf(elems[i])[2]
             hit == {j \in 1..Len(sols) : Compare(h, e, sols[j].vars, v) = 0}
         IN  IF hit # {}
             THEN GroupLoop(h, e, elems, i + 1,
                            [sols EXCEPT ![Min(hit)] = [@ EXCEPT !.instances = Append(@, inst)]])
             ELSE GroupLoop(h, e, elems, i + 1, Append(sols, [vars |-> v, instances |-> <<inst>>]))

RECURSIVE SortSolutions(_, _, _)
\* sort.Slice(solutions, Compare(vars_i, vars_j, env) < 0)
SortSolutions(h, e, sols) ==
    IF sols = <<>> THEN <<>>
    ELSE LET rest == SortSolutions(h, e, Tail(sols))
             before == SelectSeq(rest, LAMBDA x : ~(Compare(h, e, Head(sols).vars, x.vars) < 0))
             after == SelectSeq(rest, LAMBDA x : Compare(h, e, Head(sols).vars, x.vars) < 0)
         IN  before \o <<Head(sols)>> \o after

RECURSIVE BagAlternatives(_, _, _, _, _, _)
\* ks[i]: bind the grouping variables to the solution's vars, then
\* Unify(instances, agg(bag...), k, env); the envs k is invoked with
BagAlternatives(h, env, sols, i, gv, instances) ==
    IF i > Len(sols) THEN [h |-> h, alts |-> <<>>]
    ELSE The({ The({ The({ [r EXCEPT !.alts = (IF u.ok THEN <<u.e>> ELSE <<>>) \o @] :
                           r \in {BagAlternatives(u.h, env, sols, i + 1, gv, instances)} }) :
                     u \in {UnifyGoal(b.h, b.p, instances, List(sols[i].instances), FALSE)} }) :
               b \in { IF IsCmp(sols[i].vars)
                       THEN BindAll(h, env, [j \in 1..Len(gv) |-> <<gv[j][2], ArgsOf(sols[i].vars)[j]>>], 1)
                       ELSE [h |-> h, p |-> env] } })

\* VM.collectionOf(term.List, ...) = VM.BagOf
BagOfOutcome(h, env, cs, template, goal, instances) ==
    LET g == Resolve(h, env, goal)
        quantified == IsCmp(g) /\ FunctorOf(g) = "^" /\ Len(ArgsOf(g)) = 2
        qualifier == IF quantified THEN ArgsOf(g)[1] ELSE Atom("")
        body == IF quantified THEN ArgsOf(g)[2] ELSE g
        gv == Except(FreeVariables(h, env, <<body>>), FreeVariables(h, env, <<template, qualifier>>))
    IN  IF IsVar(g) THEN [h |-> h, alts |-> <<>>, err |-> Exception(Atom("instantiation_error"))]
        ELSE The({ IF f.res = "error" THEN [h |-> f.h, alts |-> <<>>, err |-> f.err]
                   ELSE IF f.res = "false" THEN [h |-> f.h, alts |-> <<>>, err |-> NoError]
                   ELSE The({ [h |-> a.h, alts |-> a.alts, err |-> NoError] :
                              a \in { BagAlternatives(f.h, env,
                                         SortSolutions(f.h, env,
                                             GroupLoop(f.h, f.e, ListElems(f.h, f.e, Var("Answers"), MaxDepth), 1, <<>>)),
                                         1, gv, instances) } }) :
                   f \in { FindAllOutcome(h, env, cs, Cmp("-", <<Apply("vars", gv), template>>),
                                          body, Var("Answers")) } })

\* bagof(template, goal, instances) with a continuation that succeeds
BagOf(template, goal, instances) ==
    /\ bi.n < MaxCollects
    /\ \E r \in {BagOfOutcome(bi.h0, bi.env, bi.cs, template, goal, instances)} :
         /\ heap' = r.h
         /\ bi' = [bi EXCEPT !.n = @ + 1,
                     !.last = [fn |-> "BagOf", template |-> template, goal |-> goal,
                               instances |-> instances, alts |-> r.alts, err |-> r.err]]
    /\ UNCHANGED <<vm, top, gen, held, un, rs, tv, ops, db, streams>>

CollectNext ==
    \/ \E t \in CollectTemplates, g \in CollectGoals, l \in CollectInstances : FindAll(t, g, l)
    \/ \E t \in CollectTemplates, g \in CollectGoals, l \in CollectInstances : BagOf(t, g, l)

SpecCollect == CollectInit /\ [][CollectNext]_vars


RECURSIVE StripQuantifiers(_)
StripQuantifiers(g) ==
    IF IsCmp(g) /\ FunctorOf(g) = "^" /\ Len(ArgsOf(g)) = 2 THEN StripQuantifiers(ArgsOf(g)[2]) ELSE g

\* the goal's arguments as the entry env gives them
EntryArgs(g) == [i \in 1..Len(ArgsOf(g)) |-> Resolve(bi.h0, bi.env, ArgsOf(g)[i])]

FactMatches(g, c) ==
    /\ piArgs(c.head).pi = piArgs(g).pi
    /\ \A i \in 1..Len(ArgsOf(g)) : IsVar(EntryArgs(g)[i]) \/ EntryArgs(g)[i] = ArgsOf(c.head)[i]

RECURSIVE Instance(_, _, _)
\* the template with the goal's variables replaced by the fact's arguments
Instance(t, g, c) ==
    LET r == Resolve(bi.h0, bi.env, t)
        at == {i \in 1..Len(ArgsOf(g)) : EntryArgs(g)[i] = r}
    IN  IF IsVar(r) THEN (IF at = {} THEN r ELSE ArgsOf(c.head)[Min(at)])
        ELSE IF IsCmp(r) THEN Cmp(FunctorOf(r), [i \in 1..Len(ArgsOf(r)) |-> Instance(ArgsOf(r)[i], g, c)])
        ELSE r

\* the solutions of a goal p(..) over facts: the facts that match, in order
SolvingFacts(g) == IF IsCmp(g) THEN SelectSeq(bi.cs, LAMBDA c : FactMatches(g, c)) ELSE <<>>

ExpectedList(template, g) ==
    List([i \in 1..Len(SolvingFacts(g)) |-> Instance(template, g, SolvingFacts(g)[i])])

\* the goal is p(..) or fail, possibly under ^, and no clause throws
PlainGoal(goal) ==
    /\ IsCmp(StripQuantifiers(goal)) \/ goal = Atom("fail")
    /\ \A i \in 1..Len(bi.cs) : bi.cs[i].body = NoValue

\* C13: findall(Template, Goal, L) unifies L with the list of one instance
\* of Template per solution of Goal, in the order of the solutions, with
\* duplicates, [] when there is none; the continuation's env differs from
\* the env at entry only by that unification.
C13_FindAllCollects ==
    (bi.last.fn = "FindAll" /\ PlainGoal(bi.last.goal)) =>
        /\ bi.last.err = NoError
        /\ Len(bi.last.alts) <= 1
        /\ IsVar(Resolve(bi.h0, bi.env, bi.last.instances)) => bi.last.alts # <<>>
        /\ bi.last.alts # <<>> =>
             /\ Simplify(heap, bi.last.alts[1], bi.last.instances, MaxDepth)
                    = ExpectedList(bi.last.template, StripQuantifiers(bi.last.goal))
             /\ \A v \in CollectVars \ VarsOf(bi.last.instances) :
                    Lookup(heap, bi.last.alts[1], v) = Lookup(bi.h0, bi.env, v)

C13_Witness ==
    /\ bi.last.fn = "FindAll" /\ bi.last.goal = P(Var("X"), Var("Y"))
    /\ bi.last.template = Var("X") /\ bi.last.instances = Var("L")
    /\ bi.last.alts # <<>>
    /\ Lookup(heap, bi.last.alts[1], "L") = List(<<Atom("a"), Atom("b"), Atom("a")>>)


RECURSIVE Quantifiers(_)
\* the terms V1, V2, ... of V1^V2^...^G
Quantifiers(g) ==
    IF IsCmp(g) /\ FunctorOf(g) = "^" /\ Len(ArgsOf(g)) = 2
    THEN <<ArgsOf(g)[1]>> \o Quantifiers(ArgsOf(g)[2]) ELSE <<>>

\* every free variable of the goal is in the template or under a ^
AllQuantified(template, goal) ==
    /\ Quantifiers(goal) # <<>>
    /\ Except(FreeVariables(bi.h0, bi.env, <<StripQuantifiers(goal)>>),
              FreeVariables(bi.h0, bi.env, <<template>> \o Quantifiers(goal))) = <<>>

\* what the continuation sees of instances at each of its invocations
Visible(h, alts, instances) == [i \in 1..Len(alts) |-> Simplify(h, alts[i], instances, MaxDepth)]

\* C14: with every free variable of the goal quantified by ^ (nested
\* quantifiers included), bagof(Template, Vars^Goal, L) has the outcome of
\* findall(Template, Goal, L) and binds L to the same list, whatever the
\* number of solutions.
C14_BagOfEqualsFindAll ==
    (bi.last.fn = "BagOf" /\ AllQuantified(bi.last.template, bi.last.goal)) =>
        \A f \in { FindAllOutcome(bi.h0, bi.env, bi.cs, bi.last.template,
                                  StripQuantifiers(bi.last.goal), bi.last.instances) } :
            /\ bi.last.err = f.err
            /\ Visible(heap, bi.last.alts, bi.last.instances)
                   = Visible(f.h, IF f.res = "k" THEN <<f.e>> ELSE <<>>, bi.last.instances)


(***************************************************************************)
(* catch/3 and throw/1                                                     *)
(***************************************************************************)

MaxCatches == 1

\* an error of the host that is not an *Exception (context.Canceled, io errors)
HostError == [exception |-> FALSE, term |-> Atom("host")]

RECURSIVE ForceCall(_, _, _, _, _)
\* vm.Call(goal, k, env).Force(ctx): k runs on the goal's solutions in
\* order until it succeeds or returns an error; the goal's own error comes
\* after the solutions that precede it
ForceCall(s, i, kouts, kerr, kcalls) ==
    IF i > Len(s.sols)
        THEN [ok |-> FALSE, err |-> s.err, by |-> "goal", e |-> s.eenv, kcalls |-> kcalls]
    ELSE IF KOutcome(kouts, kcalls + 1) = "true"
        THEN [ok |-> TRUE, err |-> NoError, by |-> "k", e |-> s.sols[i], kcalls |-> kcalls + 1]
    ELSE IF KOutcome(kouts, kcalls + 1) = "error"
        THEN [ok |-> FALSE, err |-> kerr, by |-> "k", e |-> s.sols[i], kcalls |-> kcalls + 1]
    ELSE ForceCall(s, i + 1, kouts, kerr, kcalls + 1)

CatchResult(h, res, err, raised, by, eenv, renv) ==
    [h |-> h, res |-> res, err |-> err, raised |-> raised, by |-> by, eenv |-> eenv, renv |-> renv]

\* A plausible slip: the catcher is unified in the env the ball was thrown in.
CatchOutcomeInGoalEnv(h, env, cs, goal, catcher, kouts, kerr) ==
    The({ The({ IF f.err = NoError
                    THEN CatchResult(s.h, IF f.ok THEN "true" ELSE "false", NoError, NoError, f.by, f.e, 0)
                ELSE IF ~f.err.exception
                    THEN CatchResult(s.h, "error", f.err, f.err, f.by, f.e, 0)
                ELSE The({ IF ~u.ok THEN CatchResult(u.h, "error", f.err, f.err, f.by, f.e, 0)
                           ELSE CatchResult(u.h, "recover", NoError, f.err, f.by, f.e, u.e) :
                           u \in {UnifyGoal(s.h, f.e, catcher, f.err.term, FALSE)} }) :
                f \in {ForceCall(s, 1, kouts, kerr, 0)} }) :
          s \in {Solve(h, env, cs, goal, MaxDepth)} })

\* VM.Catch: res "recover" is the call of recover with k in renv
CatchOutcome(h, env, cs, goal, catcher, kouts, kerr) ==
    The({ The({ IF f.err = NoError
                    THEN CatchResult(s.h, IF f.ok THEN "true" ELSE "false", NoError, NoError, f.by, f.e, 0)
                ELSE IF ~f.err.exception
                    THEN CatchResult(s.h, "error", f.err, f.err, f.by, f.e, 0)
                ELSE The({ IF ~u.ok THEN CatchResult(u.h, "error", f.err, f.err, f.by, f.e, 0)
                           ELSE CatchResult(u.h, "recover", NoError, f.err, f.by, f.e, u.e) :
                           u \in {UnifyGoal(s.h, env, catcher, f.err.term, FALSE)} }) :
                f \in {ForceCall(s, 1, kouts, kerr, 0)} }) :
          s \in {Solve(h, env, cs, goal, MaxDepth)} })

CatchDbs ==
    { <<Clause(Rule(P(Atom("a"), Atom("b")), Throwing(Atom("c"))))>>,
      <<Clause(P(Atom("b"), Atom("b"))), Clause(Rule(P(Atom("a"), Var("Z")), Throwing(Cmp("f", <<Var("Z")>>))))>>,
      <<Clause(Rule(P(Var("Z"), Atom("c")), Throwing(Var("W"))))>>,
      <<Clause(P(Atom("a"), Atom("b")))>> }

CatchGoals ==
    { P(Var("X"), Var("Y")), P(Atom("a"), Var("Y")), Throwing(Var("X")), Throwing(Cmp("f", <<Var("Y")>>)),
      Var("G"), Atom("fail") }

Catchers == { Var("X"), Var("V"), Atom("c"), Cmp("f", <<Var("X")>>), Cmp("f", <<Atom("a")>>) }

KErrors == { HostError, Exception(Atom("c")) }

CatchVars == {"X", "Y", "Z", "W", "V", "G"}

NoCatch == [fn |-> "none", goal |-> NoValue, catcher |-> NoValue, recover |-> NoValue,
            r |-> CatchResult(<<>>, "none", NoError, NoError, "none", 0, 0)]

CatchInit ==
    /\ \E cs \in CatchDbs, seed \in CollectSeeds : \E b \in {BindAll(<<>>, NewEnv, seed, 1)} :
           /\ heap = b.h
           /\ bi = [cs |-> cs, h0 |-> b.h, env |-> b.p, n |-> 0, last |-> NoCatch]
    /\ held = Idle /\ un = Idle /\ rs = Idle /\ tv = Idle /\ ops = Idle /\ db = Idle
    /\ streams = Idle /\ top = Idle /\ vm = Idle /\ gen = Idle

\* catch(goal, catcher, recover) called with a continuation whose outcomes are kouts
Catch(goal, catcher, recover, kouts, kerr) ==
    /\ bi.n < MaxCatches
    /\ \E r \in {CatchOutcome(bi.h0, bi.env, bi.cs, goal, catcher, kouts, kerr)} :
         /\ heap' = r.h
         /\ bi' = [bi EXCEPT !.n = @ + 1,
                     !.last = [fn |-> "Catch", goal |-> goal, catcher |-> catcher,
                               recover |-> recover, r |-> r]]
    /\ UNCHANGED <<vm, top, gen, held, un, rs, tv, ops, db, streams>>

CatchNext ==
    \E goal \in CatchGoals, catcher \in Catchers, kouts \in KOutcomes, kerr \in KErrors :
        Catch(goal, catcher, Atom("true"), kouts, kerr)

SpecCatch == CatchInit /\ [][CatchNext]_vars

\* the variables of a term as the env leaves them, by name
VarNames(h, e, t) == { FreeVariables(h, e, <<t>>)[i][2] : i \in 1..Len(FreeVariables(h, e, <<t>>)) }

\* Goal raised a ball that unifies with the catcher in the entry env
Caught ==
    /\ bi.last.fn = "Catch" /\ bi.last.r.by = "goal"
    /\ bi.last.r.raised.exception
    /\ UnifyGoal(bi.h0, bi.env, bi.last.catcher, bi.last.r.raised.term, FALSE).ok

\* Goal raised an error that is no ball, or a ball the catcher does not unify with
NotCaught ==
    /\ bi.last.fn = "Catch" /\ bi.last.r.by = "goal"
    /\ bi.last.r.raised # NoError
    /\ \/ ~bi.last.r.raised.exception
       \/ ~UnifyGoal(bi.h0, bi.env, bi.last.catcher, bi.last.r.raised.term, FALSE).ok

\* C15: when Goal raises a ball that unifies with Catcher, Recovery is called
\* in the entry env extended only by that unification: catcher and ball are
\* equal in it, the bindings of the entry env stand, and a variable that
\* occurs in neither catcher nor ball is bound exactly if the entry env
\* binds it.  When the ball does not unify, or the error is no Prolog
\* exception, catch/3 returns that same error and Recovery is not called.
C15_CatchRecovers ==
    /\ Caught =>
         /\ bi.last.r.res = "recover"
         /\ Simplify(heap, bi.last.r.renv, bi.last.catcher, MaxDepth)
              = Simplify(heap, bi.last.r.renv, bi.last.r.raised.term, MaxDepth)
         /\ \A v \in CatchVars :
              /\ Lookup(bi.h0, bi.env, v) # NoValue =>
                   Lookup(heap, bi.last.r.renv, v) = Lookup(bi.h0, bi.env, v)
              /\ (/\ v \notin VarNames(bi.h0, bi.env, bi.last.catcher)
                  /\ v \notin VarNames(bi.h0, bi.env, bi.last.r.raised.term)) =>
                   (Lookup(heap, bi.last.r.renv, v) = NoValue) = (Lookup(bi.h0, bi.env, v) = NoValue)
    /\ NotCaught =>
         /\ bi.last.r.res = "error"
         /\ bi.last.r.err = bi.last.r.raised

\* Goal had bound X when it threw, the catcher is a variable, and Recovery runs
C15_Witness ==
    /\ Caught
    /\ bi.last.r.res = "recover"
    /\ Lookup(heap, bi.last.r.eenv, "X") # NoValue
    /\ Lookup(bi.h0, bi.env, "X") = NoValue
    /\ bi.last.catcher = Var("V")


(***************************************************************************)
(* Errors of goals and continuations in the built-ins that enumerate       *)
(***************************************************************************)

MaxErrCalls == 1

\* the continuation Success
SuccessOuts == [j \in 1..MaxKCalls |-> "true"]

\* what a built-in returns, with the number of invocations of k it made
Enumerated(res, err, kcalls) == [res |-> res, err |-> err, kcalls |-> kcalls]

\* k(env) as the last thing a built-in does
TailK(kouts, kerr) ==
    IF KOutcome(kouts, 1) = "error" THEN Enumerated("error", kerr, 1)
    ELSE Enumerated(KOutcome(kouts, 1), NoError, 1)

\* A plausible slip: an error of the goal is taken for its failure.
NegationOutcomeBacktracks(h, env, cs, goal, kouts, kerr) ==
    The({ IF f.ok THEN Enumerated("false", NoError, 0)
          ELSE TailK(kouts, kerr) :
          f \in {ForceCall(Solve(h, env, cs, goal, MaxDepth), 1, SuccessOuts, NoError, 0)} })

\* VM.Negation
NegationOutcome(h, env, cs, goal, kouts, kerr) ==
    The({ IF f.err # NoError THEN Enumerated("error", f.err, 0)
          ELSE IF f.ok THEN Enumerated("false", NoError, 0)
          ELSE TailK(kouts, kerr) :
          f \in {ForceCall(Solve(h, env, cs, goal, MaxDepth), 1, SuccessOuts, NoError, 0)} })

\* VM.FindAll with the continuation kouts
FindAllK(h, env, cs, template, goal, instances, kouts, kerr) ==
    The({ IF r.res = "k" THEN TailK(kouts, kerr)
          ELSE Enumerated(r.res, r.err, 0) :
          r \in {FindAllOutcome(h, env, cs, template, goal, instances)} })

\* VM.Retract with the continuation kouts, whose error is kerr
RetractK(m, t, kouts, kerr) ==
    The({ IF r.res = "error" /\ r.stage = "loop" THEN Enumerated("error", kerr, Len(r.kcalls))
          ELSE IF r.res = "error" THEN Enumerated("error", Exception(r.err), 0)
          ELSE Enumerated(r.res, NoError, Len(r.kcalls)) :
          r \in {RetractOutcome(m, t, kouts)} })

\* op.Precedence.Unify(precedence) && op.Type.Unify(typ) && op.Name.Unify(name),
\* on bindings that a.Reset() undoes
EngineUnifies(h, env, op, pattern) ==
    UnifyGoal(h, env, Cmp("op", <<Integer(op.Priority), Atom(op.Specifier), Atom(op.Name)>>),
              Cmp("op", pattern), FALSE).ok

RECURSIVE CurrentOpLoop(_, _, _, _, _, _, _, _)
\* the for loop of Engine.CurrentOp
CurrentOpLoop(h, env, operators, i, pattern, kouts, kerr, kcalls) ==
    IF i > Len(operators) THEN Enumerated("false", NoError, kcalls)
    ELSE IF ~EngineUnifies(h, env, operators[i], pattern)
        THEN CurrentOpLoop(h, env, operators, i + 1, pattern, kouts, kerr, kcalls)
    ELSE IF KOutcome(kouts, kcalls + 1) = "error" THEN Enumerated("error", kerr, kcalls + 1)
    ELSE IF KOutcome(kouts, kcalls + 1) = "true" THEN Enumerated("true", NoError, kcalls + 1)
    ELSE CurrentOpLoop(h, env, operators, i + 1, pattern, kouts, kerr, kcalls + 1)

\* Engine.CurrentOp
EngineCurrentOpOutcome(operators, pattern, kouts, kerr) ==
    CurrentOpLoop(<<>>, NewEnv, operators, 1, pattern, kouts, kerr, 0)

\* databases, dynamic procedures and operator tables a session starts from
ErrSessions ==
    { [cs |-> <<Clause(P(Atom("a"), Atom("b"))), Clause(Rule(P(Atom("c"), Atom("c")), Throwing(Atom("a")))),
                Clause(P(Atom("b"), Atom("b")))>>,
       procedures |-> assert(assert(Builtins, Cmp("foo", <<Atom("a")>>), "assertz").procedures,
                             Cmp("foo", <<Atom("b")>>), "assertz").procedures,
       operators |-> <<Operator(700, "xfx", "+"), Operator(700, "xfx", "foo"), Operator(200, "fy", "+")>>],
      [cs |-> <<Clause(Rule(P(Atom("a"), Atom("b")), Throwing(Atom("c"))))>>,
       procedures |-> Builtins,
       operators |-> <<>>],
      [cs |-> <<Clause(P(Atom("a"), Atom("b")))>>,
       procedures |-> assert(Builtins, Cmp("foo", <<Atom("a")>>), "assertz").procedures,
       operators |-> <<Operator(700, "xfx", "+"), Operator(200, "fy", "+")>>] }

CurrentOpPatterns ==
    { <<Var("X"), Var("Y"), Var("Z")>>, <<Integer(700), Var("Y"), Var("Z")>>,
      <<Var("X"), Atom("fy"), Atom("+")>>, <<Var("X"), Var("Y"), Var("X")>> }

NoEnumeration == [fn |-> "none", goal |-> NoValue, r |-> Enumerated("none", NoError, 0)]

\* kouts and kerr are the continuation the built-ins of the session are called with
ErrInit ==
    /\ \E session \in ErrSessions, kouts \in KOutcomes, kerr \in KErrors :
           bi = [cs |-> session.cs, procedures |-> session.procedures,
                 operators |-> session.operators, kouts |-> kouts, kerr |-> kerr,
                 n |-> 0, last |-> NoEnumeration]
    /\ heap = <<>>
    /\ held = Idle /\ un = Idle /\ rs = Idle /\ tv = Idle /\ ops = Idle /\ db = Idle
    /\ streams = Idle /\ top = Idle /\ vm = Idle /\ gen = Idle

Enumerate(fn, goal, r) ==
    /\ bi.n < MaxErrCalls
    /\ bi' = [bi EXCEPT !.n = @ + 1, !.last = [fn |-> fn, goal |-> goal, r |-> r]]
    /\ UNCHANGED <<vm, top, gen, heap, held, un, rs, tv, ops, db, streams>>

\* \+ goal
Negation(goal) ==
    /\ Enumerate("Negation", goal, NegationOutcome(<<>>, NewEnv, bi.cs, goal, bi.kouts, bi.kerr))

\* findall(X, goal, L)
FindAllThenK(goal) ==
    /\ Enumerate("FindAll", goal,
                 FindAllK(<<>>, NewEnv, bi.cs, Var("X"), goal, Var("L"), bi.kouts, bi.kerr))

\* retract(t)
RetractThenK(t) ==
    /\ Enumerate("Retract", t, RetractK(bi.procedures, t, bi.kouts, bi.kerr))

\* current_op(precedence, typ, name) of the Engine
EngineCurrentOp(pattern) ==
    /\ Enumerate("CurrentOp", Cmp("op", pattern),
                 EngineCurrentOpOutcome(bi.operators, pattern, bi.kouts, bi.kerr))

ErrNext ==
    \/ \E goal \in CatchGoals : Negation(goal)
    \/ \E goal \in CatchGoals : FindAllThenK(goal)
    \/ \E t \in RetractTerms : RetractThenK(t)
    \/ \E pattern \in CurrentOpPatterns : EngineCurrentOp(pattern)

SpecErrors == ErrInit /\ [][ErrNext]_vars

\* the error the goal of findall/3 or of a negation returns, NoError if none
GoalError ==
    IF bi.last.fn = "FindAll" THEN Solve(<<>>, NewEnv, bi.cs, bi.last.goal, MaxDepth).err
    ELSE IF bi.last.fn = "Negation"
        THEN ForceCall(Solve(<<>>, NewEnv, bi.cs, bi.last.goal, MaxDepth), 1, SuccessOuts, NoError, 0).err
    ELSE NoError

\* C16: an error is not a failure to backtrack through.  When the goal of
\* findall/3 or of a negation returns an error, the built-in returns that
\* error and does not invoke its continuation; when an invocation of the
\* continuation by findall/3, a negation, retract/1 or current_op/3 returns
\* an error, the built-in returns that error and that invocation is its last.
C16_ErrorsPropagate ==
    /\ GoalError # NoError =>
         /\ bi.last.r.res = "error"
         /\ bi.last.r.err = GoalError
         /\ bi.last.r.kcalls = 0
    /\ \A j \in 1..bi.last.r.kcalls :
         KOutcome(bi.kouts, j) = "error" =>
             /\ bi.last.r.res = "error"
             /\ bi.last.r.err = bi.kerr
             /\ bi.last.r.kcalls = j

\* the goal of a negation threw
C16_Witness ==
    /\ bi.last.fn = "Negation"
    /\ GoalError # NoError
    /\ bi.last.r.res = "error"

\* the continuation of current_op/3 failed on one operator and returned an
\* error on the next, with a further operator left to try
C16_WitnessCurrentOp ==
    /\ bi.last.fn = "CurrentOp"
    /\ bi.last.r.kcalls = 2
    /\ bi.last.r.res = "error"
    /\ Len(bi.operators) = 3
    /\ bi.last.goal = Cmp("op", <<Var("X"), Var("Y"), Var("Z")>>)


(***************************************************************************)
(* Term inspection and construction: arg/3, functor/3, =../2, copy_term/2  *)
(***************************************************************************)

MaxInspects == 1

instantiationError(culprit) == Exception(Atom("instantiation_error"))
typeError(kind, culprit) == Exception(Cmp("type_error", <<Atom(kind), culprit>>))
domainError(kind, culprit) == Exception(Cmp("domain_error", <<Atom(kind), culprit>>))
domainErrorNotLessThanZero(culprit) == domainError("not_less_than_zero", culprit)

\* Arg
ArgOutcome(h, env, nth, t, arg) ==
    LET c == Resolve(h, env, t)
        n == Resolve(h, env, nth)
    IN  IF IsVar(c) THEN BuiltinResult(h, env, "error", instantiationError(t))
        ELSE IF IsCmp(c) THEN
            IF IsVar(n) THEN BuiltinResult(h, env, "error", instantiationError(nth))
            ELSE IF IsInteger(n) THEN
                IF n[2] = 0 \/ n[2] >= Len(ArgsOf(c)) THEN BuiltinResult(h, env, "false", NoError)
                ELSE IF n[2] < 0 THEN BuiltinResult(h, env, "error", domainErrorNotLessThanZero(n))
                ELSE UnifyThenK(h, env, arg, ArgsOf(c)[n[2]])
            ELSE BuiltinResult(h, env, "error", typeError("integer", n))
        ELSE BuiltinResult(h, env, "error", typeError("compound", t))

RECURSIVE EachError(_, _, _, _)
\* Each(list, f, env): the error it returns on a list that is not proper
EachError(h, e, l, depth) ==
    IF depth = 0 THEN NoError
    ELSE The({ IF r = Atom("[]") THEN NoError
               ELSE IF IsVar(r) THEN instantiationError(l)
               ELSE IF IsCmp(r) /\ FunctorOf(r) = "." /\ Len(ArgsOf(r)) = 2
                   THEN EachError(h, e, ArgsOf(r)[2], depth - 1)
               ELSE typeError("list", l) : r \in {Resolve(h, e, l)} })

\* term.NewVariable() called arity times
NewVariables(arity) == [i \in 1..arity |-> Var(VarName(i))]

\* Functor
FunctorOutcome(h, env, t, name, arity) ==
    LET r == Resolve(h, env, t)
        a == Resolve(h, env, arity)
        n == Resolve(h, env, name)
    IN  IF IsVar(r) THEN
            IF IsVar(a) THEN BuiltinResult(h, env, "error", instantiationError(a))
            ELSE IF IsInteger(a) THEN
                IF a[2] < 0 THEN BuiltinResult(h, env, "error", domainErrorNotLessThanZero(a))
                ELSE IF a[2] = 0 THEN UnifyThenK(h, env, r, name)
                ELSE IF IsVar(n) THEN BuiltinResult(h, env, "error", instantiationError(n))
                ELSE IF IsCmp(n) THEN BuiltinResult(h, env, "error", typeError("atomic", n))
                ELSE IF IsAtom(n) THEN UnifyThenK(h, env, r, Cmp(n[2], NewVariables(a[2])))
                ELSE BuiltinResult(h, env, "error", typeError("atom", n))
            ELSE BuiltinResult(h, env, "error", typeError("integer", a))
        ELSE IF IsCmp(r)
            THEN UnifyThenK(h, env, Cmp("", <<name, arity>>),
                            Cmp("", <<Atom(FunctorOf(r)), Integer(Len(ArgsOf(r)))>>))
        ELSE UnifyThenK(h, env, Cmp("", <<name, arity>>), Cmp("", <<r, Integer(0)>>))

\* Univ
UnivOutcome(h, env, t, list) ==
    LET r == Resolve(h, env, t)
        l == Resolve(h, env, list)
    IN  IF IsVar(r) THEN
            IF l = Atom("[]") THEN BuiltinResult(h, env, "error", domainError("not_empty_list", l))
            ELSE IF ~(IsCmp(l) /\ FunctorOf(l) = "." /\ Len(ArgsOf(l)) = 2)
                THEN BuiltinResult(h, env, "error", typeError("list", l))
            ELSE IF ~IsAtom(Resolve(h, env, ArgsOf(l)[1]))
                THEN BuiltinResult(h, env, "error", typeError("atom", ArgsOf(l)[1]))
            ELSE IF EachError(h, env, ArgsOf(l)[2], MaxDepth) # NoError
                THEN BuiltinResult(h, env, "error", EachError(h, env, ArgsOf(l)[2], MaxDepth))
            ELSE UnifyThenK(h, env, r, Cmp(Resolve(h, env, ArgsOf(l)[1])[2],
                                           ListElems(h, env, ArgsOf(l)[2], MaxDepth)))
        ELSE IF IsCmp(r) THEN UnifyThenK(h, env, list, List(<<Atom(FunctorOf(r))>> \o ArgsOf(r)))
        ELSE UnifyThenK(h, env, list, List(<<r>>))

\* errors.New("invalid argument")
InvalidArgument == [exception |-> FALSE, term |-> Atom("invalid argument")]

\* Univ of package prolog; res "panic" is the call of Unify on a nil Term
\* that the walk down a partial list ends in
EngineUnivOutcome(h, env, t, list) ==
    LET r == Resolve(h, env, t)
        l == Resolve(h, env, list)
    IN  IF IsVar(r) THEN
            IF ~(IsCmp(l) /\ FunctorOf(l) = "." /\ Len(ArgsOf(l)) = 2)
                THEN BuiltinResult(h, env, "error", InvalidArgument)
            ELSE IF ~IsAtom(Resolve(h, env, ArgsOf(l)[1]))
                THEN BuiltinResult(h, env, "error", InvalidArgument)
            ELSE IF EachError(h, env, ArgsOf(l)[2], MaxDepth) = instantiationError(l)
                THEN BuiltinResult(h, env, "panic", NoError)
            ELSE IF EachError(h, env, ArgsOf(l)[2], MaxDepth) # NoError
                THEN BuiltinResult(h, env, "error", InvalidArgument)
            ELSE UnifyThenK(h, env, r, Cmp(Resolve(h, env, ArgsOf(l)[1])[2],
                                           ListElems(h, env, ArgsOf(l)[2], MaxDepth)))
        ELSE IF IsCmp(r) THEN UnifyThenK(h, env, list, List(<<Atom(FunctorOf(r))>> \o ArgsOf(r)))
        ELSE BuiltinResult(h, env, "error", InvalidArgument)

\* CopyTerm
CopyTermOutcome(h, env, in, out) ==
    UnifyThenK(h, env, copyTerm(h, env, in, {}, 0, MaxDepth).t, out)

\* VM.Call: the head call.Apply(args...) of the clause it compiles
CallHead(h, env, goal) ==
    Apply("$call", FreeVariables(h, env, <<Resolve(h, env, goal)>>))

InspectSeeds ==
    { <<>>, << <<"T", Cmp("f", <<Atom("a"), Var("X")>>)>>, <<"N", Integer(2)>> >> }

InspectTerms ==
    { Cmp("f", <<Atom("a")>>), Cmp("f", <<Atom("a"), Atom("b")>>),
      Cmp("g", <<Var("X"), Atom("b"), Cmp("f", <<Var("X")>>)>>), Atom("a"), Integer(1), Var("T") }

ArgPositions == { Integer(i) : i \in -1..4 } \cup { Var("N"), Atom("a") }

ArgValues == { Var("A"), Atom("a"), Atom("b") }

InspectVars == {"A", "N", "T", "X", "Y", "L"}

NoInspect == [fn |-> "none", args |-> <<>>, r |-> BuiltinResult(<<>>, 0, "none", NoError)]

InspectInit ==
    /\ \E seed \in InspectSeeds : \E b \in {BindAll(<<>>, NewEnv, seed, 1)} :
           /\ heap = b.h
           /\ bi = [h0 |-> b.h, env |-> b.p, n |-> 0, last |-> NoInspect]
    /\ held = Idle /\ un = Idle /\ rs = Idle /\ tv = Idle /\ ops = Idle /\ db = Idle
    /\ streams = Idle /\ top = Idle /\ vm = Idle /\ gen = Idle

\* a built-in called with a continuation that succeeds
Inspect(fn, args, r) ==
    /\ bi.n < MaxInspects
    /\ heap' = r.h
    /\ bi' = [bi EXCEPT !.n = @ + 1, !.last = [fn |-> fn, args |-> args, r |-> r]]
    /\ UNCHANGED <<vm, top, gen, held, un, rs, tv, ops, db, streams>>

\* arg(nth, t, arg)
Arg(nth, t, arg) ==
    /\ Inspect("Arg", <<nth, t, arg>>, ArgOutcome(bi.h0, bi.env, nth, t, arg))

FunctorNames == { Atom("a"), Var("Y"), Cmp("f", <<Atom("a")>>), Integer(1) }

FunctorArities == { Integer(-1), Integer(0), Integer(2), Var("N"), Atom("a") }

UnivLists ==
    { List(<<Atom("a")>>), List(<<Atom("f"), Atom("a"), Var("Y")>>), Atom("[]"), Atom("a"),
      List(<<Var("Y")>>), List(<<Integer(1)>>), Var("L"), Cmp(".", <<Atom("f"), Var("Y")>>) }

\* functor(t, name, arity)
Functor(t, name, arity) ==
    /\ Inspect("Functor", <<t, name, arity>>, FunctorOutcome(bi.h0, bi.env, t, name, arity))

\* t =.. list
Univ(t, list) ==
    /\ Inspect("Univ", <<t, list>>, UnivOutcome(bi.h0, bi.env, t, list))

\* t =.. list in package prolog
EngineUniv(t, list) ==
    /\ Inspect("EngineUniv", <<t, list>>, EngineUnivOutcome(bi.h0, bi.env, t, list))

\* copy_term(in, out)
CopyTerm(in, out) ==
    /\ Inspect("CopyTerm", <<in, out>>, CopyTermOutcome(bi.h0, bi.env, in, out))

\* call(goal), as far as the head of the clause it compiles
Call1(goal) ==
    /\ ~IsVar(Resolve(bi.h0, bi.env, goal))
    /\ Inspect("Call", <<goal, CallHead(bi.h0, bi.env, goal)>>,
               BuiltinResult(bi.h0, bi.env, "k", NoError))

InspectNext ==
    \/ \E nth \in ArgPositions, t \in InspectTerms, arg \in ArgValues : Arg(nth, t, arg)
    \/ \E t \in InspectTerms \cup {Var("X")}, name \in FunctorNames, arity \in FunctorArities :
           Functor(t, name, arity)
    \/ \E t \in InspectTerms \cup {Var("X")}, list \in UnivLists : Univ(t, list)
    \/ \E t \in InspectTerms \cup {Var("X")}, list \in UnivLists : EngineUniv(t, list)
    \/ \E in \in InspectTerms, out \in {Var("A"), Var("X")} : CopyTerm(in, out)
    \/ \E goal \in InspectTerms : Call1(goal)

SpecInspect == InspectInit /\ [][InspectNext]_vars

\* arg/3 was called with an integer N on a compound T
ArgOnCompound ==
    /\ bi.last.fn = "Arg"
    /\ IsCmp(Resolve(bi.h0, bi.env, bi.last.args[2]))
    /\ IsInteger(Resolve(bi.h0, bi.env, bi.last.args[1]))

ArgN == Resolve(bi.h0, bi.env, bi.last.args[1])[2]
ArgT == ArgsOf(Resolve(bi.h0, bi.env, bi.last.args[2]))

\* C17: for a compound T of arity n, arg(N, T, A) with 1 <= N <= n unifies A
\* with the N-th argument of T (it succeeds with the two equal if they
\* unify and fails otherwise); with N = 0 or N > n it fails; with N < 0 it
\* returns domain_error(not_less_than_zero, N).
C17_ArgExtracts ==
    ArgOnCompound =>
        /\ (1 <= ArgN /\ ArgN <= Len(ArgT)) =>
             IF UnifyGoal(bi.h0, bi.env, bi.last.args[3], ArgT[ArgN], FALSE).ok
             THEN /\ bi.last.r.res = "k"
                  /\ Simplify(heap, bi.last.r.e, bi.last.args[3], MaxDepth)
                       = Simplify(heap, bi.last.r.e, ArgT[ArgN], MaxDepth)
             ELSE bi.last.r.res = "false"
        /\ (ArgN = 0 \/ ArgN > Len(ArgT)) => bi.last.r.res = "false"
        /\ ArgN < 0 =>
             /\ bi.last.r.res = "error"
             /\ bi.last.r.err = domainError("not_less_than_zero", Integer(ArgN))


RECURSIVE HasEmptyCompound(_)
\* a Compound without arguments occurs in t
HasEmptyCompound(t) ==
    /\ IsCmp(t)
    /\ \/ Len(ArgsOf(t)) = 0
       \/ \E i \in 1..Len(ArgsOf(t)) : HasEmptyCompound(ArgsOf(t)[i])

Constructs == {"Functor", "Univ", "EngineUniv", "CopyTerm", "Call"}

\* C18: a Compound always has arity >= 1.  After functor/3, =../2 (of
\* either package), copy_term/2 or call/1 no variable is bound to a term
\* with a Compound of zero arguments in it, and none is passed on; X =.. [a]
\* and functor(X, a, 0) bind X to the atom a.
C18_CompoundHasArgs ==
    (bi.last.fn \in Constructs /\ bi.last.r.res = "k") =>
        /\ \A v \in InspectVars : ~HasEmptyCompound(Simplify(heap, bi.last.r.e, Var(v), MaxDepth))
        /\ bi.last.fn = "Call" => ~HasEmptyCompound(bi.last.args[2])
        /\ (/\ bi.last.fn \in {"Univ", "EngineUniv"}
            /\ bi.last.args = <<Var("X"), List(<<Atom("a")>>)>>) =>
               Simplify(heap, bi.last.r.e, Var("X"), MaxDepth) = Atom("a")
        /\ (/\ bi.last.fn = "Functor"
            /\ bi.last.args = <<Var("X"), Atom("a"), Integer(0)>>) =>
               Simplify(heap, bi.last.r.e, Var("X"), MaxDepth) = Atom("a")


(***************************************************************************)
(* Arithmetic: FunctionSet.eval and the integer functions                  *)
(***************************************************************************)

MaxEvals == 1

typeErrorEvaluable(culprit) == typeError("evaluable", culprit)
evaluationErrorZeroDivisor == Exception(Cmp("evaluation_error", <<Atom("zero_divisor")>>))

Abs(i) == IF i < 0 THEN -i ELSE i

\* i / j of Go on int64: truncated, wrapping for MinInt / -1
Quo(i, j) == Int64((IF (i < 0) = (j < 0) THEN 1 ELSE -1) * (Abs(i) \div Abs(j)))

\* i % j of Go on int64: the sign of i
Rem(i, j) == (IF i < 0 THEN -1 ELSE 1) * (Abs(i) % Abs(j))

\* i >> j for j >= 0: arithmetic shift
Shr(i, j) ==
    IF j >= IntBits THEN (IF i < 0 THEN -1 ELSE 0)
    ELSE IF i >= 0 THEN i \div (2 ^ j)
    ELSE -((-i + (2 ^ j) - 1) \div (2 ^ j))

\* i << j for j >= 0
Shl(i, j) == IF j >= IntBits THEN 0 ELSE Int64(i * (2 ^ j))

RECURSIVE Bitwise(_, _, _, _)
\* the bits of the unsigned u and v combined by f, lowest bit first
Bitwise(f, u, v, bits) ==
    IF bits = 0 THEN 0
    ELSE (IF f = "and" THEN (IF u % 2 = 1 /\ v % 2 = 1 THEN 1 ELSE 0)
          ELSE (IF u % 2 = 1 \/ v % 2 = 1 THEN 1 ELSE 0))
         + 2 * Bitwise(f, u \div 2, v \div 2, bits - 1)

\* uint64(i)
Unsigned(i) == i % (2 ^ IntBits)

\* the functions of DefaultFunctionSet.Binary on integers; stop names the
\* run-time panic the Go operator ends in, if any
Applied(v) == [stop |-> "none", v |-> v]
Stopped(why) == [stop |-> why, v |-> 0]

IntegerFunction(op, i, j) ==
    IF op = "+" THEN Applied(Int64(i + j))
    ELSE IF op = "-" THEN Applied(Int64(i - j))
    ELSE IF op = "*" THEN Applied(Int64(i * j))
    ELSE IF op = "//" THEN (IF j = 0 THEN Stopped("integer divide by zero") ELSE Applied(Quo(i, j)))
    ELSE IF op = "rem" THEN (IF j = 0 THEN Stopped("integer divide by zero") ELSE Applied(Rem(i, j)))
    ELSE IF op = "mod"
        THEN (IF j = 0 THEN Stopped("integer divide by zero") ELSE Applied(Rem(Int64(Rem(i, j) + j), j)))
    ELSE IF op = ">>" THEN (IF j < 0 THEN Stopped("negative shift amount") ELSE Applied(Shr(i, j)))
    ELSE IF op = "<<" THEN (IF j < 0 THEN Stopped("negative shift amount") ELSE Applied(Shl(i, j)))
    ELSE IF op = "/\\" THEN Applied(Int64(Bitwise("and", Unsigned(i), Unsigned(j), IntBits)))
    ELSE Applied(Int64(Bitwise("or", Unsigned(i), Unsigned(j), IntBits)))

BinaryIntegerOps == {"//", "rem", "mod", ">>", "<<", "/\\", "\\/"}
BinaryNumberOps == {"+", "-", "*"}
UnaryOps == {"-", "\\"}

Evaluated(res, v, err) == [res |-> res, v |-> v, err |-> err]

\* the deferred function of eval: a divide by zero becomes an error, any
\* other panic goes on
Recovered(f) ==
    IF f.stop = "none" THEN Evaluated("value", Integer(f.v), NoError)
    ELSE IF f.stop = "integer divide by zero" THEN Evaluated("error", NoValue, evaluationErrorZeroDivisor)
    ELSE Evaluated("panic", NoValue, NoError)

RECURSIVE eval(_, _, _, _)
\* FunctionSet.eval with DefaultFunctionSet, on integers
eval(h, env, expression, depth) ==
    LET t == Resolve(h, env, expression)
    IN  IF depth = 0 \/ IsVar(t) THEN Evaluated("error", NoValue, instantiationError(expression))
        ELSE IF IsAtom(t)
            THEN Evaluated("error", NoValue, typeErrorEvaluable(Cmp("/", <<t, Integer(0)>>)))
        ELSE IF IsInteger(t) THEN Evaluated("value", t, NoError)
        ELSE IF Len(ArgsOf(t)) = 1 THEN
            IF FunctorOf(t) \notin UnaryOps
                THEN Evaluated("error", NoValue,
                               typeErrorEvaluable(Cmp("/", <<Atom(FunctorOf(t)), Integer(1)>>)))
            ELSE The({ IF x.res # "value" THEN x
                       ELSE IF FunctorOf(t) = "-" THEN Evaluated("value", Integer(Int64(-1 * x.v[2])), NoError)
                       ELSE Evaluated("value", Integer(-x.v[2] - 1), NoError) :
                       x \in {eval(h, env, ArgsOf(t)[1], depth - 1)} })
        ELSE IF Len(ArgsOf(t)) = 2 THEN
            IF FunctorOf(t) \notin BinaryIntegerOps \cup BinaryNumberOps
                THEN Evaluated("error", NoValue,
                               typeErrorEvaluable(Cmp("/", <<Atom(FunctorOf(t)), Integer(2)>>)))
            ELSE The({ IF x.res # "value" THEN x
                       ELSE The({ IF y.res # "value" THEN y
                                  ELSE Recovered(IntegerFunction(FunctorOf(t), x.v[2], y.v[2])) :
                                  y \in {eval(h, env, ArgsOf(t)[2], depth - 1)} }) :
                       x \in {eval(h, env, ArgsOf(t)[1], depth - 1)} })
        ELSE Evaluated("error", NoValue, typeErrorEvaluable(t))

\* FunctionSet.Is
IsOutcome(h, env, result, expression) ==
    The({ IF v.res = "panic" THEN BuiltinResult(h, env, "panic", NoError)
          ELSE IF v.res = "error" THEN BuiltinResult(h, env, "error", v.err)
          ELSE UnifyThenK(h, env, result, v.v) :
          v \in {eval(h, env, expression, MaxDepth)} })

\* FunctionSet.LessThan
LessThanOutcome(h, env, lhs, rhs) ==
    The({ IF l.res = "panic" THEN BuiltinResult(h, env, "panic", NoError)
          ELSE IF l.res = "error" THEN BuiltinResult(h, env, "error", l.err)
          ELSE The({ IF r.res = "panic" THEN BuiltinResult(h, env, "panic", NoError)
                     ELSE IF r.res = "error" THEN BuiltinResult(h, env, "error", r.err)
                     ELSE IF ~(l.v[2] < r.v[2]) THEN BuiltinResult(h, env, "false", NoError)
                     ELSE BuiltinResult(h, env, "k", NoError) :
                     r \in {eval(h, env, rhs, MaxDepth)} }) :
          l \in {eval(h, env, lhs, MaxDepth)} })

\* operands at the ends of the range, around zero and around the width
Operands == {MinInt, MinInt + 1, -2, -1, 0, 1, 2, 3, IntBits - 1, IntBits, MaxInt - 1, MaxInt}

Expressions ==
    { Cmp(op, <<Integer(i), Integer(j)>>) : op \in BinaryIntegerOps \cup BinaryNumberOps,
                                            i \in Operands, j \in Operands }
    \cup { Cmp(op, <<Integer(i)>>) : op \in UnaryOps, i \in Operands }
    \cup { Cmp("<<", <<Integer(1), Cmp("-", <<Integer(0), Integer(1)>>)>>),
           Cmp("+", <<Integer(1), Cmp("//", <<Integer(1), Integer(0)>>)>>),
           Cmp("+", <<Integer(1), Atom("a")>>), Cmp("foo", <<Integer(1), Integer(2)>>), Var("Y") }

NoEval == [fn |-> "none", expression |-> NoValue, r |-> BuiltinResult(<<>>, 0, "none", NoError)]

EvalInit ==
    /\ heap = <<>>
    /\ bi = [n |-> 0, last |-> NoEval]
    /\ held = Idle /\ un = Idle /\ rs = Idle /\ tv = Idle /\ ops = Idle /\ db = Idle
    /\ streams = Idle /\ top = Idle /\ vm = Idle /\ gen = Idle

\* X is expression, with a continuation that succeeds
Is(expression) ==
    /\ bi.n < MaxEvals
    /\ \E r \in {IsOutcome(<<>>, NewEnv, Var("X"), expression)} :
         /\ heap' = r.h
         /\ bi' = [n |-> bi.n + 1, last |-> [fn |-> "Is", expression |-> expression, r |-> r]]
    /\ UNCHANGED <<vm, top, gen, held, un, rs, tv, ops, db, streams>>

\* expression < 0, with a continuation that succeeds
LessThan(expression) ==
    /\ bi.n < MaxEvals
    /\ \E r \in {LessThanOutcome(<<>>, NewEnv, expression, Integer(0))} :
         /\ heap' = r.h
         /\ bi' = [n |-> bi.n + 1, last |-> [fn |-> "LessThan", expression |-> expression, r |-> r]]
    /\ UNCHANGED <<vm, top, gen, held, un, rs, tv, ops, db, streams>>

EvalNext ==
    \/ \E expression \in Expressions : Is(expression)
    \/ \E expression \in Expressions : LessThan(expression)

SpecEval == EvalInit /\ [][EvalNext]_vars

\* the expression is an integer function applied to two integers
OnIntegers ==
    /\ bi.last.fn \in {"Is", "LessThan"}
    /\ IsCmp(bi.last.expression)
    /\ \A i \in 1..Len(ArgsOf(bi.last.expression)) : IsInteger(ArgsOf(bi.last.expression)[i])
    /\ \/ Len(ArgsOf(bi.last.expression)) = 2
          /\ FunctorOf(bi.last.expression) \in BinaryIntegerOps \cup BinaryNumberOps
       \/ Len(ArgsOf(bi.last.expression)) = 1 /\ FunctorOf(bi.last.expression) \in UnaryOps

\* C19: arithmetic failures are Prolog error terms, never host panics.  For
\* every pair of integer operands each integer function evaluated through
\* is/2 or a comparison yields an integer or an error term; //, rem and mod
\* by 0 yield evaluation_error(zero_divisor); nothing ends in a panic.
C19_NoPanic ==
    OnIntegers =>
        /\ bi.last.r.res # "panic"
        /\ bi.last.r.res = "error" => bi.last.r.err.exception
        /\ (/\ Len(ArgsOf(bi.last.expression)) = 2
            /\ FunctorOf(bi.last.expression) \in {"//", "rem", "mod"}
            /\ ArgsOf(bi.last.expression)[2] = Integer(0)) =>
               /\ bi.last.r.res = "error"
               /\ bi.last.r.err = evaluationErrorZeroDivisor


(***************************************************************************)
(* The stream table: open/4 and close/2                                    *)
(***************************************************************************)

MaxStreamOps == 3

\* a *term.Stream as a term; id is its identity (the pointer)
Stream(id) == <<"stream", id>>
IsStream(t) == t[1] = "stream"

\* the key of vm.streams a stream without alias is stored under
StreamKey(id) == <<"#1", "#2", "#3", "#4">>[id]

Entry(key, id) == [key |-> key, id |-> id]
Keys(table) == { x.key : x \in table }

existenceErrorStream(culprit) == Exception(Cmp("existence_error", <<Atom("stream"), culprit>>))
domainErrorStreamOption(culprit) == domainError("stream_option", culprit)
permissionError(action, type, culprit) ==
    Exception(Cmp("permission_error", <<Atom(action), Atom(type), culprit>>))
resourceError(culprit) == Exception(Cmp("resource_error", <<culprit>>))

\* vm.stream(streamOrAlias, env)
stream(table, streamOrAlias) ==
    IF IsVar(streamOrAlias) THEN [id |-> 0, err |-> instantiationError(streamOrAlias)]
    ELSE IF IsAtom(streamOrAlias) THEN
        IF streamOrAlias[2] \notin Keys(table)
        THEN [id |-> 0, err |-> existenceErrorStream(streamOrAlias)]
        ELSE [id |-> The({ x.id : x \in { y \in table : y.key = streamOrAlias[2] } }), err |-> NoError]
    ELSE IF IsStream(streamOrAlias) THEN [id |-> streamOrAlias[2], err |-> NoError]
    ELSE [id |-> 0, err |-> domainError("stream_or_alias", streamOrAlias)]

RECURSIVE OpenOptions(_, _, _, _)
\* the callback of Each(options, ...) in VM.Open, as far as the alias goes
OpenOptions(table, options, i, alias) ==
    IF i > Len(options) THEN [alias |-> alias, err |-> NoError]
    ELSE IF ~(IsCmp(options[i]) /\ Len(ArgsOf(options[i])) = 1)
        THEN [alias |-> alias, err |-> domainErrorStreamOption(options[i])]
    ELSE IF FunctorOf(options[i]) = "type" THEN OpenOptions(table, options, i + 1, alias)
    ELSE IF FunctorOf(options[i]) # "alias"
        THEN [alias |-> alias, err |-> domainErrorStreamOption(options[i])]
    ELSE IF IsVar(ArgsOf(options[i])[1])
        THEN [alias |-> alias, err |-> instantiationError(ArgsOf(options[i])[1])]
    ELSE IF ~IsAtom(ArgsOf(options[i])[1])
        THEN [alias |-> alias, err |-> domainErrorStreamOption(options[i])]
    ELSE IF ArgsOf(options[i])[1][2] \in Keys(table)
        THEN [alias |-> alias, err |-> permissionError("open", "source_sink", options[i])]
    ELSE OpenOptions(table, options, i + 1, ArgsOf(options[i])[1][2])

StreamResult(table, objs, res, err, id) ==
    [table |-> table, objs |-> objs, res |-> res, err |-> err, id |-> id]

\* VM.Open; exists is whether os.OpenFile finds the file, and the stream
\* argument unifies if it is a variable
OpenOutcome(table, objs, streamArg, options, exists) ==
    LET o == OpenOptions(table, options, 1, "")
        id == Len(objs) + 1
    IN  IF o.err # NoError THEN StreamResult(table, objs, "error", o.err, 0)
        ELSE IF ~exists
            THEN StreamResult(table, objs, "error",
                              Exception(Cmp("existence_error", <<Atom("source_sink"), Atom("f")>>)), 0)
        ELSE StreamResult(table \cup {Entry(IF o.alias = "" THEN StreamKey(id) ELSE o.alias, id)},
                          Append(objs, [alias |-> o.alias, closed |-> FALSE]),
                          IF IsVar(streamArg) THEN "k" ELSE "false", NoError, id)

RECURSIVE CloseOptions(_, _, _)
\* the callback of Each(options, ...) in VM.Close
CloseOptions(options, i, force) ==
    IF i > Len(options) THEN [force |-> force, err |-> NoError]
    ELSE IF IsVar(options[i]) THEN [force |-> force, err |-> instantiationError(options[i])]
    ELSE IF ~IsCmp(options[i]) THEN [force |-> force, err |-> domainErrorStreamOption(options[i])]
    ELSE IF FunctorOf(options[i]) # "force" THEN CloseOptions(options, i + 1, force)
    ELSE IF Len(ArgsOf(options[i])) # 1 THEN [force |-> force, err |-> domainErrorStreamOption(options[i])]
    ELSE IF IsVar(ArgsOf(options[i])[1])
        THEN [force |-> force, err |-> instantiationError(ArgsOf(options[i])[1])]
    ELSE IF ArgsOf(options[i])[1] = Atom("false") THEN CloseOptions(options, i + 1, FALSE)
    ELSE IF ArgsOf(options[i])[1] = Atom("true") THEN CloseOptions(options, i + 1, TRUE)
    ELSE [force |-> force, err |-> domainErrorStreamOption(options[i])]

\* VM.Close; s.Closer.Close() returns an error if fails, and always on a
\* file that is closed already
CloseOutcome(table, objs, streamOrAlias, options, fails) ==
    LET s == stream(table, streamOrAlias)
        o == CloseOptions(options, 1, FALSE)
    IN  IF s.err # NoError THEN StreamResult(table, objs, "error", s.err, 0)
        ELSE IF o.err # NoError THEN StreamResult(table, objs, "error", o.err, s.id)
        ELSE IF (fails \/ objs[s.id].closed) /\ ~o.force
            THEN StreamResult(table, [objs EXCEPT ![s.id].closed = TRUE], "error",
                              resourceError(streamOrAlias), s.id)
        ELSE StreamResult({ x \in table : x.key # (IF objs[s.id].alias = "" THEN StreamKey(s.id)
                                                   ELSE objs[s.id].alias) },
                          [objs EXCEPT ![s.id].closed = TRUE], "k", NoError, s.id)

Aliases == {"a", "b"}

OpenOptionLists ==
    { <<>>, <<Cmp("alias", <<Atom("a")>>)>>, <<Cmp("alias", <<Atom("b")>>)>>,
      <<Cmp("alias", <<Atom("a")>>), Cmp("alias", <<Atom("b")>>)>>,
      <<Cmp("type", <<Atom("text")>>), Cmp("alias", <<Atom("a")>>)>>,
      <<Cmp("alias", <<Var("X")>>)>> }

CloseOptionLists == { <<>>, <<Cmp("force", <<Atom("true")>>)>> }

NoStreamOp == [op |-> "none", arg |-> NoValue, options |-> <<>>, pre |-> {},
               r |-> StreamResult({}, <<>>, "none", NoError, 0)]

\* vm.streams with the alias a standing for a stream opened before, or empty
StreamInit ==
    /\ \E t \in { [table |-> {}, objs |-> <<>>],
                  [table |-> {Entry("a", 1)}, objs |-> <<[alias |-> "a", closed |-> FALSE]>>] } :
           streams = [table |-> t.table, objs |-> t.objs, n |-> 0, last |-> NoStreamOp]
    /\ heap = <<>>
    /\ held = Idle /\ un = Idle /\ rs = Idle /\ tv = Idle /\ ops = Idle /\ db = Idle
    /\ bi = Idle /\ top = Idle /\ vm = Idle /\ gen = Idle

StreamOp(op, arg, options, r) ==
    /\ streams.n < MaxStreamOps
    /\ streams' = [table |-> r.table, objs |-> r.objs, n |-> streams.n + 1,
                   last |-> [op |-> op, arg |-> arg, options |-> options, pre |-> streams.table,
                             r |-> r]]
    /\ UNCHANGED <<vm, top, gen, heap, held, un, rs, tv, ops, db, bi>>

\* open(f, read, streamArg, options)
Open(streamArg, options, exists) ==
    /\ Len(streams.objs) < Len(<<"#1", "#2", "#3", "#4">>)
    /\ StreamOp("open", streamArg, options,
                OpenOutcome(streams.table, streams.objs, streamArg, options, exists))

\* close(streamOrAlias, options)
Close(streamOrAlias, options, fails) ==
    /\ IsStream(streamOrAlias) => streamOrAlias[2] \in 1..Len(streams.objs)
    /\ StreamOp("close", streamOrAlias, options,
                CloseOutcome(streams.table, streams.objs, streamOrAlias, options, fails))

StreamNext ==
    \/ \E streamArg \in {Var("S"), Atom("a")}, options \in OpenOptionLists, exists \in BOOLEAN :
           Open(streamArg, options, exists)
    \/ \E streamOrAlias \in { Atom(a) : a \in Aliases } \cup { Stream(id) : id \in 1..4 }
                            \cup {Var("S"), Integer(1)},
          options \in CloseOptionLists, fails \in BOOLEAN :
           Close(streamOrAlias, options, fails)

SpecStream == StreamInit /\ [][StreamNext]_vars

\* the alias the options of the last open/4 give, "" if none
GivenAlias ==
    LET as == SelectSeq(streams.last.options, LAMBDA o : FunctorOf(o) = "alias" /\ IsAtom(ArgsOf(o)[1]))
    IN  IF as = <<>> THEN "" ELSE ArgsOf(as[Len(as)])[1][2]

\* the options of the last open/4 name an alias that was in the table
AliasTaken ==
    \E i \in 1..Len(streams.last.options) :
        /\ FunctorOf(streams.last.options[i]) = "alias"
        /\ IsAtom(ArgsOf(streams.last.options[i])[1])
        /\ ArgsOf(streams.last.options[i])[1][2] \in Keys(streams.last.pre)

\* C20: a successful open/4 adds exactly one entry to the stream table,
\* under the alias if alias(A) is given and under the stream itself
\* otherwise; open/4 with an alias that is in the table returns a
\* permission_error and leaves the table as it was; a successful close/2 of
\* a stream removes exactly the entry of that stream and leaves every other
\* entry as it was, and looking its alias up afterwards returns
\* existence_error(stream, A).
C20_StreamTable ==
    /\ (streams.last.op = "open" /\ streams.last.r.res = "k") =>
         \E x \in streams.table :
            /\ x.key \notin Keys(streams.last.pre)
            /\ streams.table = streams.last.pre \cup {x}
            /\ x.id = streams.last.r.id
            /\ x.key = (IF GivenAlias = "" THEN StreamKey(x.id) ELSE GivenAlias)
    /\ (streams.last.op = "open" /\ AliasTaken) =>
         /\ streams.last.r.res = "error"
         /\ streams.last.r.err.term[2] = "permission_error"
         /\ streams.table = streams.last.pre
    /\ (streams.last.op = "close" /\ streams.last.r.res = "k") =>
         /\ streams.table = { x \in streams.last.pre : x.id # streams.last.r.id }
         /\ \A x \in streams.last.pre :
              (x.id = streams.last.r.id /\ x.key \in Aliases) =>
                  stream(streams.table, Atom(x.key)).err = existenceErrorStream(Atom(x.key))

(***************************************************************************)
(* The top level: handleLine of cmd/1pl                                    *)
(***************************************************************************)

MaxSols == 3
MaxLines == 2

\* what a solution prints: the joined "Name = Value" of its bound variables,
\* "" when it binds none
Bindings == {"X = a", "X = b", "X = c", ""}

RECURSIVE SeqsUpTo(_, _)
SeqsUpTo(S, n) ==
    IF n = 0 THEN {<<>>}
    ELSE SeqsUpTo(S, n - 1) \cup { Append(q, x) : q \in SeqsUpTo(S, n - 1), x \in S }

\* the solutions a query has, in order, and the error its enumeration ends in
Queries == [sols : SeqsUpTo(Bindings, MaxSols), err : BOOLEAN]

Runes == {";", ".", "x"}

TopInit ==
    /\ top = [pc |-> "read", buffered |-> FALSE, lines |-> 0, query |-> [sols |-> <<>>, err |-> FALSE],
              i |-> 0, c |-> 0, out |-> <<>>, answers |-> <<>>, closed |-> FALSE]
    /\ heap = <<>>
    /\ held = Idle /\ un = Idle /\ rs = Idle /\ tv = Idle /\ ops = Idle /\ db = Idle
    /\ bi = Idle /\ streams = Idle /\ gen = Idle /\ vm = Idle

\* t.ReadLine() and i.QueryContext(ctx, buf.String()): parsed is "ok",
\* "insufficient" (syntax.ErrInsufficient) or "error"
ReadLine(parsed, query) ==
    /\ top.pc = "read"
    /\ top.lines < MaxLines
    /\ top' = IF parsed = "ok"
              THEN [top EXCEPT !.pc = "next", !.lines = @ + 1, !.query = query, !.i = 0, !.c = 0,
                               !.out = <<>>, !.answers = <<>>, !.closed = FALSE]
              ELSE IF parsed = "insufficient"
              THEN [top EXCEPT !.lines = @ + 1, !.buffered = TRUE, !.out = <<>>, !.answers = <<>>, !.closed = FALSE]
              ELSE [top EXCEPT !.lines = @ + 1, !.buffered = FALSE, !.out = <<>>, !.answers = <<>>, !.closed = FALSE]
    /\ UNCHANGED <<vm, heap, held, un, rs, tv, ops, db, bi, streams, gen>>

\* sols.Next() and the body of the loop up to keys.ReadRune()
NextSolution ==
    /\ top.pc = "next"
    /\ top' = IF top.i >= Len(top.query.sols) THEN [top EXCEPT !.pc = "close"]
              ELSE IF top.query.sols[top.i + 1] = ""
              THEN [top EXCEPT !.pc = "close", !.i = @ + 1, !.c = @ + 1, !.out = Append(@, "true.")]
              ELSE [top EXCEPT !.pc = "key", !.i = @ + 1, !.c = @ + 1,
                               !.out = Append(@, top.query.sols[top.i + 1])]
    /\ UNCHANGED <<vm, heap, held, un, rs, tv, ops, db, bi, streams, gen>>

\* keys.ReadRune() and the rest of the loop body
ReadRune(r) ==
    /\ top.pc = "key"
    /\ top' = [top EXCEPT !.pc = IF r = ";" THEN "next" ELSE "close",
                          !.out = Append(@, IF r = ";" THEN ";" ELSE "."),
                          !.answers = Append(@, r)]
    /\ UNCHANGED <<vm, heap, held, un, rs, tv, ops, db, bi, streams, gen>>

\* sols.Close(), sols.Err() and the end of handleLine; closed marks that the
\* line was a query whose solutions were enumerated
CloseSolutions ==
    /\ top.pc = "close"
    /\ top' = IF top.query.err /\ top.i >= Len(top.query.sols)
              THEN [top EXCEPT !.pc = "read", !.closed = TRUE, !.buffered = FALSE]
              ELSE IF top.c = 0
              THEN [top EXCEPT !.pc = "read", !.closed = TRUE, !.buffered = FALSE, !.out = Append(@, "false.")]
              ELSE [top EXCEPT !.pc = "read", !.closed = TRUE, !.buffered = FALSE]
    /\ UNCHANGED <<vm, heap, held, un, rs, tv, ops, db, bi, streams, gen>>

TopNext ==
    \/ \E parsed \in {"ok", "insufficient", "error"}, query \in Queries : ReadLine(parsed, query)
    \/ NextSolution
    \/ \E r \in Runes : ReadRune(r)
    \/ CloseSolutions

SpecTop == TopInit /\ [][TopNext]_vars

\* handleLine has returned from a query that raised no error
Answered == top.pc = "read" /\ top.closed /\ ~top.query.err

\* every solution binds a variable and the user answered ';' to each
AllRequested ==
    /\ \A k \in 1..Len(top.query.sols) : top.query.sols[k] # ""
    /\ Len(top.answers) = Len(top.query.sols)
    /\ \A k \in 1..Len(top.answers) : top.answers[k] = ";"

RECURSIVE Listing(_)
\* the solutions, each followed by ';'
Listing(sols) == IF sols = <<>> THEN <<>> ELSE <<Head(sols), ";">> \o Listing(Tail(sols))

\* C21: a query with n >= 1 solutions that bind variables, answered ';'
\* after every solution, prints the n solutions in order and then 'false.';
\* a query with no solution prints 'false.' once; a query stopped by '.'
\* prints no 'false.'.
C21_TopLevelLoop ==
    Answered =>
        /\ (Len(top.query.sols) >= 1 /\ AllRequested) =>
              top.out = Listing(top.query.sols) \o <<"false.">>
        /\ top.query.sols = <<>> => top.out = <<"false.">>
        /\ (top.answers # <<>> /\ top.answers[Len(top.answers)] # ";") =>
              \A k \in 1..Len(top.out) : top.out[k] # "false."


(***************************************************************************)
(* term.NewVariable called from several goroutines                         *)
(***************************************************************************)

MaxGoroutines == 2
MaxNewVars == 3

Goroutines == 1..MaxGoroutines

\* pc[g] is "call" before atomic.AddUint64 and "added" between it and the
\* read of varCounter that fmt.Sprintf formats
GenInit ==
    /\ gen = [varCounter |-> 0, pc |-> [g \in Goroutines |-> "call"],
              calls |-> [g \in Goroutines |-> 0], returned |-> <<>>]
    /\ heap = <<>>
    /\ held = Idle /\ un = Idle /\ rs = Idle /\ tv = Idle /\ ops = Idle /\ db = Idle
    /\ bi = Idle /\ streams = Idle /\ top = Idle /\ vm = Idle

\* atomic.AddUint64(&varCounter, 1)
AddUint64(g) ==
    /\ gen.pc[g] = "call"
    /\ gen.calls[g] < MaxNewVars
    /\ gen' = [gen EXCEPT !.varCounter = @ + 1, !.pc[g] = "added", !.calls[g] = @ + 1]
    /\ UNCHANGED <<vm, heap, held, un, rs, tv, ops, db, bi, streams, top>>

\* return Variable(fmt.Sprintf("_%d", varCounter)): the variable is named by
\* the value the counter has when it is read
Sprintf(g) ==
    /\ gen.pc[g] = "added"
    /\ gen' = [gen EXCEPT !.pc[g] = "call",
                          !.returned = Append(@, [g |-> g, id |-> gen.varCounter])]
    /\ UNCHANGED <<vm, heap, held, un, rs, tv, ops, db, bi, streams, top>>

GenNext == \E g \in Goroutines : AddUint64(g) \/ Sprintf(g)

SpecGen == GenInit /\ [][GenNext]_vars

\* C22: fresh variables are globally unique: no two calls of NewVariable,
\* from the same or from different goroutines, return the same variable.
C22_FreshVariablesUnique ==
    \A i, j \in 1..Len(gen.returned) :
        i # j => gen.returned[i].id # gen.returned[j].id


(***************************************************************************)
(* Specification SpecVM: queries forced to their end against the procedure *)
(* map: user-defined procedures with cut (clauses.Call), call/1 (VM.Call), *)
(* asserta/1, assertz/1 (VM.assert), retract/1 (VM.Retract), abolish/1     *)
(* (VM.Abolish), catch/3 (VM.Catch) and throw/1.  The goals are ground up  *)
(* to variables that stay unbound, so a clause is selected by its head     *)
(* alone; what is followed is control and the procedure map.               *)
(***************************************************************************)
MaxQueries == 2

\* the events of a run: the hooks vm.OnCall/OnRedo ("try"), vm.OnExit
\* ("exit") and vm.OnFail ("fail"), and marks for the steps the hooks do
\* not report
Event(kind, id, n, pi, cs) == [kind |-> kind, id |-> id, n |-> n, pi |-> pi, cs |-> cs]

NoPI == <<"none", 0>>

Log(s, kind, id, n, pi, cs) == [s EXCEPT !.trace = Append(@, Event(kind, id, n, pi, cs))]

\* a run: the procedure map, the events so far, the invocations of the
\* query's continuation, the invocations of clauses.Call, and what the
\* query's continuation answers
Machine(procs, kouts) == [procs |-> procs, trace |-> <<>>, kc |-> 0, nb |-> 0, kouts |-> kouts]

\* what forcing a promise gives: res is "true", "false" or "error"; cut is
\* the invocation whose Delay a failure is cutting back to, 0 if none
Forced(res, err, s, cut) == [res |-> res, err |-> err, s |-> s, cut |-> cut]

\* a goal of a clause body in registers: own is the invocation of
\* clauses.Call the clause runs in, b its registers.cutParent
BodyGoal(g, own, b) == [g |-> g, own |-> own, b |-> b]

\* the continuation cont of registers: vm.OnExit and then k
OnExit(id) == [g |-> <<"exit", id>>, own |-> id, b |-> 0]

RECURSIVE Body(_, _, _)
\* the conjuncts compileBody lays out, left to right
Body(body, own, b) ==
    IF body = NoValue THEN <<>>
    ELSE IF IsCmp(body) /\ FunctorOf(body) = "," /\ Len(ArgsOf(body)) = 2
        THEN <<BodyGoal(ArgsOf(body)[1], own, b)>> \o Body(ArgsOf(body)[2], own, b)
    ELSE <<BodyGoal(body, own, b)>>

\* A plausible slip: the alternative reads the clause from vm.procedures
\* when it is forced.
AlternativeLive(cs, procs, pi, i) ==
    IF pi \in DOMAIN procs /\ IsClauses(procs[pi]) /\ i <= Len(procs[pi][2])
    THEN procs[pi][2][i] ELSE cs[i]

\* ks[i] of clauses.Call: i, c := i, cs[i] is taken when Call is entered
Alternative(cs, procs, pi, i) == cs[i]

Outer(c1, c2) == IF c1 = 0 THEN c2 ELSE IF c2 = 0 THEN c1 ELSE IF c1 < c2 THEN c1 ELSE c2

existenceErrorProcedure(pi) == Cmp("existence_error", <<Atom("procedure"), PITerm(pi)>>)

typeErrorPredicateIndicator(t) == Cmp("type_error", <<Atom("predicate_indicator"), t>>)

\* the query's continuation: it is counted and answers as kouts says
TopK(s) ==
    LET s1 == Log([s EXCEPT !.kc = @ + 1], "k", 0, s.kc + 1, NoPI, <<>>)
        o == KOutcome(s.kouts, s.kc + 1)
    IN  IF o = "error" THEN Forced("error", HostError, s1, 0)
        ELSE Forced(o, NoError, s1, 0)

\* VM.Abolish up to its continuation
AbolishOutcome(procs, t) ==
    IF IsVar(t) THEN [err |-> Exception(Atom("instantiation_error")), procs |-> procs, pi |-> NoPI]
    ELSE IF ~(IsCmp(t) /\ FunctorOf(t) = "/" /\ Len(ArgsOf(t)) = 2)
        THEN [err |-> Exception(typeErrorPredicateIndicator(t)), procs |-> procs, pi |-> NoPI]
    ELSE IF IsVar(ArgsOf(t)[1]) \/ (IsAtom(ArgsOf(t)[1]) /\ IsVar(ArgsOf(t)[2]))
        THEN [err |-> Exception(Atom("instantiation_error")), procs |-> procs, pi |-> NoPI]
    ELSE IF ~IsAtom(ArgsOf(t)[1])
        THEN [err |-> Exception(Cmp("type_error", <<Atom("atom"), ArgsOf(t)[1]>>)), procs |-> procs, pi |-> NoPI]
    ELSE IF ~IsInteger(ArgsOf(t)[2])
        THEN [err |-> Exception(Cmp("type_error", <<Atom("integer"), ArgsOf(t)[2]>>)), procs |-> procs, pi |-> NoPI]
    ELSE IF ArgsOf(t)[2][2] < 0
        THEN [err |-> Exception(Cmp("domain_error", <<Atom("not_less_than_zero"), ArgsOf(t)[2]>>)),
              procs |-> procs, pi |-> NoPI]
    ELSE LET key == <<ArgsOf(t)[1][2], ArgsOf(t)[2][2]>>
         IN  IF ~(key \in DOMAIN procs /\ IsClauses(procs[key]))
             THEN [err |-> Exception(permissionErrorModifyStaticProcedure(t)), procs |-> procs, pi |-> key]
             ELSE [err |-> NoError, procs |-> [x \in (DOMAIN procs) \ {key} |-> procs[x]], pi |-> key]

RECURSIVE exec(_, _, _)
RECURSIVE arrive(_, _, _, _, _)
RECURSIVE VMCall(_, _, _, _, _)
RECURSIVE CallClauses(_, _, _, _, _, _, _)
RECURSIVE Alternatives(_, _, _, _, _, _, _, _, _)
RECURSIVE VMRetract(_, _, _, _)
RECURSIVE RetractAlternatives(_, _, _, _, _, _, _, _)
RECURSIVE VMCatch(_, _, _, _, _, _, _)

\* the alternatives ks[i], ks[i+1], ... of the Delay of invocation id, forced
\* left to right until one succeeds, returns an error or is cut
Alternatives(s, cs, pi, i, goal, id, parent, rest, d) ==
    IF i > Len(cs) THEN Forced("false", NoError, Log(s, "fail", id, i, pi, <<>>), 0)
    ELSE LET c == Alternative(cs, s.procs, pi, i)
             s1 == Log(s, "try", id, i, pi, <<c>>)
         IN  IF ~Solves(c, goal)
             THEN Alternatives(s1, cs, pi, i + 1, goal, id, parent, rest, d)
             ELSE The({ IF r.res # "false" THEN r
                        ELSE IF r.cut = id
                            THEN Forced("false", NoError, Log(r.s, "stop", id, r.cut, pi, <<>>), 0)
                        ELSE IF r.cut # 0
                            THEN Forced("false", NoError, Log(r.s, "stop", id, r.cut, pi, <<>>), r.cut)
                        ELSE Alternatives(r.s, cs, pi, i + 1, goal, id, parent, rest, d) :
                        r \in {exec(s1, Body(c.body, id, id)
                                        \o <<OnExit(id)>> \o rest, d - 1)} })

\* clauses.Call
CallClauses(s, cs, pi, goal, parent, rest, d) ==
    IF Len(cs) = 0 THEN Forced("false", NoError, s, 0)
    ELSE Alternatives(Log([s EXCEPT !.nb = @ + 1], "call", s.nb + 1, 0, pi, cs),
                      cs, pi, 1, goal, s.nb + 1, parent, rest, d)

\* A plausible slip: the goal runs as part of the clause that called call/1,
\* with that clause's cut parent.
VMCallTransparent(s, goal, parent, rest, d) ==
    IF IsVar(goal) THEN Forced("error", Exception(Atom("instantiation_error")), s, 0)
    ELSE IF compile(Rule(Atom("$call"), goal)).err # NoValue
        THEN Forced("error", Exception(compile(Rule(Atom("$call"), goal)).err), s, 0)
    ELSE exec(Log([s EXCEPT !.nb = @ + 1], "call", s.nb + 1, 0, <<"$call", 0>>, <<>>),
              Body(goal, s.nb + 1, parent) \o <<OnExit(s.nb + 1)>> \o rest, d - 1)

\* VM.Call: the goal is compiled as the body of a clause of its own, and the
\* clause is called as user-defined clauses are (parent, the cut parent of
\* the caller, is not handed on)
VMCall(s, goal, parent, rest, d) ==
    IF IsVar(goal) THEN Forced("error", Exception(Atom("instantiation_error")), s, 0)
    ELSE The({ IF c.err # NoValue THEN Forced("error", Exception(c.err), s, 0)
               ELSE CallClauses(s, c.added, <<"$call", 0>>, Atom("$call"), parent, rest, d) :
               c \in {compile(Rule(Atom("$call"), goal))} })

\* the for loop of VM.Retract's delayed function and its deferred store
RetractAlternatives(s, pi, cs, i, updated, t, rest, d) ==
    IF i > Len(cs)
    THEN Forced("false", NoError,
                Log([s EXCEPT !.procs = Put(@, pi, Clauses(updated))], "store", 0, 0, pi, updated), 0)
    ELSE IF ~RuleUnifies(t, cs[i])
        THEN RetractAlternatives(s, pi, cs, i + 1, Append(updated, cs[i]), t, rest, d)
    ELSE The({ IF r.res = "false"
                   THEN RetractAlternatives(r.s, pi, cs, i + 1, updated, t, rest, d)
               ELSE Forced(r.res, r.err,
                           Log(Log(Log([r.s EXCEPT !.procs = Put(@, pi, Clauses(updated \o SubSeq(cs, i + 1, Len(cs))))],
                                       "removed", 0, i, pi, <<cs[i]>>),
                                   "returned", 0, IF r.res = "true" THEN 1 ELSE 0, pi,
                                   IF pi \in DOMAIN r.s.procs /\ IsClauses(r.s.procs[pi])
                                   THEN r.s.procs[pi][2] ELSE <<>>),
                               "store", 0, 0, pi, updated \o SubSeq(cs, i + 1, Len(cs))), 0) :
               r \in {exec(Log(s, "retract", 0, i, pi, <<cs[i]>>), rest, d - 1)} })

\* VM.Retract
VMRetract(s, t, rest, d) ==
    LET r == Rulify(<<>>, NewEnv, t)
        a == piArgs(ArgsOf(r)[1])
    IN  IF a.err # NoValue THEN Forced("error", Exception(a.err), s, 0)
        ELSE IF a.pi \notin DOMAIN s.procs THEN Forced("false", NoError, s, 0)
        ELSE IF ~IsClauses(s.procs[a.pi])
            THEN Forced("error", Exception(permissionErrorModifyStaticProcedure(PITerm(a.pi))), s, 0)
        ELSE RetractAlternatives(s, a.pi, s.procs[a.pi][2], 1, <<>>, r, rest, d)

\* VM.Catch: goal and k are forced inside the delayed function
VMCatch(s, goal, catcher, recover, parent, rest, d) ==
    The({ IF r.res # "error" THEN Forced(r.res, NoError, r.s, 0)
          ELSE IF ~r.err.exception THEN Forced("error", r.err, r.s, 0)
          ELSE IF ~UnifyGoal(<<>>, NewEnv, catcher, r.err.term, FALSE).ok
              THEN Forced("error", r.err, r.s, 0)
          ELSE VMCall(Log(r.s, "recover", s.nb + 1, 0, NoPI, <<>>), recover, parent, rest, d - 1) :
          r \in {VMCall(Log(s, "catch", s.nb + 1, 0, NoPI, <<>>), goal, parent, rest, d - 1)} })

\* vm.arrive: the procedure of the goal, a built-in or clauses
arrive(s, fr, parent, rest, d) ==
    LET g == fr.g
        a == piArgs(g)
    IN  IF a.err # NoValue THEN Forced("error", Exception(a.err), s, 0)
        ELSE IF a.pi = <<"true", 0>> THEN exec(s, rest, d)
        ELSE IF a.pi = <<"fail", 0>> THEN Forced("false", NoError, s, 0)
        ELSE IF a.pi = <<"call", 1>> THEN VMCall(s, a.args[1], fr.b, rest, d)
        ELSE IF a.pi = <<"throw", 1>>
            THEN Forced("error", Throw(<<>>, NewEnv, a.args[1]), Log(s, "throw", fr.own, 0, NoPI, <<>>), 0)
        ELSE IF a.pi = <<"catch", 3>>
            THEN VMCatch(s, a.args[1], a.args[2], a.args[3], fr.b, rest, d)
        ELSE IF a.pi = <<"retract", 1>> THEN VMRetract(s, a.args[1], rest, d)
        ELSE IF a.pi = <<"abolish", 1>>
            THEN The({ IF r.err # NoError THEN Forced("error", r.err, s, 0)
                       ELSE exec(Log([s EXCEPT !.procs = r.procs], "store", 0, 0, r.pi, <<>>), rest, d) :
                       r \in {AbolishOutcome(s.procs, a.args[1])} })
        ELSE IF a.pi \in {<<"assertz", 1>>, <<"asserta", 1>>}
            THEN The({ IF r.res = "error" THEN Forced("error", Exception(r.err), s, 0)
                       ELSE IF r.res = "arrive"
                           THEN arrive(s, BodyGoal(piArgs(a.args[1]).args[1], fr.own, fr.b), parent, rest, d)
                       ELSE exec(Log([s EXCEPT !.procs = r.procedures], "store", 0, 0, r.pi,
                                     r.procedures[r.pi][2]), rest, d) :
                       r \in {assert(s.procs, a.args[1], a.pi[1])} })
        ELSE IF a.pi \notin DOMAIN s.procs
            THEN Forced("error", Exception(existenceErrorProcedure(a.pi)), s, 0)
        ELSE IF ~IsClauses(s.procs[a.pi])
            THEN IF IsAtom(a.args[1]) THEN exec(s, rest, d) ELSE Forced("false", NoError, s, 0)
        ELSE CallClauses(s, s.procs[a.pi][2], a.pi, g, parent, rest, d)

\* vm.exec from op_enter on, with the promise it returns forced: the goals
\* of the body left to right, op_cut, and op_exit's continuation
exec(s, frames, d) ==
    IF d <= 0 THEN Forced("error", HostError, Log(s, "depth", 0, 0, NoPI, <<>>), 0)
    ELSE IF frames = <<>> THEN TopK(s)
    ELSE LET fr == Head(frames)
             rest == Tail(frames)
         IN  IF fr.g[1] = "exit" THEN exec(Log(s, "exit", fr.g[2], 0, NoPI, <<>>), rest, d)
             ELSE IF fr.g = Atom("!")
                 THEN The({ IF r.res = "false" THEN [r EXCEPT !.cut = Outer(fr.b, @)] ELSE r :
                            r \in {exec(Log(s, "cut", fr.own, fr.b, NoPI, <<>>), rest, d)} })
             ELSE IF IsVar(fr.g) THEN VMCall(s, fr.g, fr.b, rest, d)
             ELSE arrive(s, fr, fr.b, rest, d)

Conj(g1, g2) == Cmp(",", <<g1, g2>>)

Q(x) == Cmp("q", <<x>>)

\* q(a). q(b).  c :- call(!), fail.  c.  d :- !, fail.  d.
\* e :- q(X), call(!), fail.  r :- retract(q(a)), assertz(q(c)).
ProgramText ==
    << Q(Atom("a")), Q(Atom("b")),
       Rule(Atom("c"), Conj(Cmp("call", <<Atom("!")>>), Atom("fail"))), Atom("c"),
       Rule(Atom("d"), Conj(Atom("!"), Atom("fail"))), Atom("d"),
       Rule(Atom("e"), Conj(Q(Var("X")), Conj(Cmp("call", <<Atom("!")>>), Atom("fail")))),
       Rule(Atom("r"), Conj(Cmp("retract", <<Q(Atom("a"))>>), Cmp("assertz", <<Q(Atom("c"))>>))) >>

RECURSIVE Consult(_, _, _)
Consult(m, ts, i) ==
    IF i > Len(ts) THEN m ELSE Consult(assert(m, ts[i], "assertz").procedures, ts, i + 1)

Program == Consult(Builtins, ProgramText, 1)

CutGoals ==
    { Atom("c"), Atom("d"), Atom("e"),
      Conj(Q(Var("X")), Cmp("call", <<Atom("!")>>)),
      Conj(Q(Var("X")), Atom("!")),
      Cmp("call", <<Conj(Atom("!"), Atom("fail"))>>),
      Conj(Q(Var("X")), Cmp("call", <<Conj(Q(Var("Y")), Atom("!"))>>)) }

RetractGoals ==
    { Atom("r"),
      Conj(Cmp("retract", <<Q(Atom("a"))>>), Cmp("assertz", <<Q(Atom("c"))>>)),
      Conj(Cmp("retract", <<Q(Atom("b"))>>), Cmp("asserta", <<Q(Atom("c"))>>)),
      Cmp("retract", <<Q(Var("X"))>>),
      Conj(Cmp("retract", <<Q(Var("X"))>>), Atom("fail")) }

CatchGoals3 ==
    { Cmp("catch", <<Cmp("throw", <<Atom("b")>>), Var("X"), Atom("true")>>),
      Cmp("catch", <<Cmp("throw", <<Atom("b")>>), Atom("a"), Atom("true")>>),
      Conj(Cmp("catch", <<Atom("true"), Var("X"), Atom("true")>>), Cmp("throw", <<Atom("b")>>)),
      Conj(Cmp("catch", <<Q(Var("X")), Atom("b"), Cmp("assertz", <<Q(Atom("c"))>>)>>),
           Cmp("throw", <<Atom("b")>>)),
      Cmp("catch", <<Q(Var("X")), Var("Y"), Atom("true")>>) }

UpdateGoals ==
    { Conj(Q(Var("X")), Conj(Cmp("assertz", <<Q(Atom("c"))>>), Atom("fail"))),
      Conj(Q(Var("X")), Conj(Cmp("asserta", <<Q(Atom("c"))>>), Atom("fail"))),
      Conj(Q(Var("X")), Conj(Cmp("retract", <<Q(Atom("b"))>>), Atom("fail"))),
      Conj(Q(Var("X")), Conj(Cmp("abolish", <<PITerm(<<"q", 1>>)>>), Atom("fail"))),
      Conj(Q(Var("X")), Cmp("asserta", <<Q(Atom("c"))>>)),
      Q(Var("X")) }

\* what the continuation of a query answers: it asks for every solution,
\* takes the first, or returns an error at the second
KPolicies == {<<>>, <<"true">>, <<"false", "error">>}

NoQuery == [goal |-> NoValue, res |-> "none", err |-> NoError, trace |-> <<>>, pre |-> Program]

VMInit ==
    /\ \E kouts \in KPolicies :
         vm = [procedures |-> Program, n |-> 0, kouts |-> kouts, last |-> NoQuery]
    /\ heap = <<>>
    /\ held = Idle /\ un = Idle /\ rs = Idle /\ tv = Idle /\ ops = Idle /\ db = Idle
    /\ bi = Idle /\ streams = Idle /\ top = Idle /\ gen = Idle

\* vm.Call(goal, k, env).Force(ctx) of a query
Query(goal) ==
    /\ vm.n < MaxQueries
    /\ \E r \in {VMCall(Machine(vm.procedures, vm.kouts), goal, 0, <<>>, MaxDepth)} :
         vm' = [vm EXCEPT !.procedures = r.s.procs, !.n = @ + 1,
                          !.last = [goal |-> goal, res |-> r.res, err |-> r.err,
                                    trace |-> r.s.trace, pre |-> vm.procedures]]
    /\ UNCHANGED <<heap, held, un, rs, tv, ops, db, bi, streams, top, gen>>

CutQuery == /\ \E goal \in CutGoals : Query(goal)

RetractQuery == /\ \E goal \in RetractGoals : Query(goal)

CatchQuery == /\ \E goal \in CatchGoals3 : Query(goal)

UpdateQuery == /\ \E goal \in UpdateGoals : Query(goal)

VMNext == CutQuery \/ RetractQuery \/ CatchQuery \/ UpdateQuery

SpecVM == VMInit /\ [][VMNext]_vars

Trace == vm.last.trace

\* C23: a cut inside call(Goal) is local to Goal: the alternatives of an
\* invocation (the remaining clauses of the procedure that invoked call/1,
\* and the choice points its clause left) are given up only because of a
\* cut that stands in a clause of the invocation cut back to, never
\* because of a cut that stands in the goal of a call/1.
C23_CutLocalToCall ==
    \A i \in 1..Len(Trace) :
        Trace[i].kind = "stop"
            => \E j \in 1..(i - 1) : Trace[j].kind = "cut" /\ Trace[j].id = Trace[i].n

\* a cut in the goal of a call/1 was executed, and afterwards a further
\* clause of an invocation that was under way was tried
C23_Witness ==
    \E j, k \in 1..Len(Trace) :
        /\ j < k
        /\ Trace[j].kind = "cut"
        /\ \E i \in 1..(j - 1) :
             Trace[i].kind = "call" /\ Trace[i].id = Trace[j].id /\ Trace[i].pi = <<"$call", 0>>
        /\ Trace[k].kind = "try" /\ Trace[k].n = 2 /\ Trace[k].id < Trace[j].id
        /\ Trace[k].pi # <<"$call", 0>>

Range(q) == {q[i] : i \in DOMAIN q}

\* C26: database updates made by the continuation of retract/1 are not
\* lost: when retract has succeeded, the procedure holds every clause it
\* held when the continuation had run, the added ones included, except the
\* clause retract removed, which it does not hold.
C26_ContinuationUpdatesKept ==
    \A j \in 1..Len(Trace) :
        (Trace[j].kind = "removed" /\ Trace[j + 1].n = 1)
            => /\ \A x \in Range(Trace[j + 1].cs) :
                    x # Trace[j].cs[1] => x \in Range(Trace[j + 2].cs)
               /\ Trace[j].cs[1] \notin Range(Trace[j + 2].cs)

\* C27: catch/3 is active only while Goal is being solved: Recovery is
\* called only for an error raised before Goal was exited, so that an
\* error of the continuation is not intercepted and the continuation does
\* not run a second time.
C27_CatchOnlyDuringGoal ==
    \A i \in 1..Len(Trace) :
        Trace[i].kind = "recover"
            => ~\E j \in 1..(i - 1) : Trace[j].kind = "exit" /\ Trace[j].id = Trace[i].id

\* the clauses pi had when the event at position i happened: what the last
\* store before it left, or what the query found
ClausesAt(i, pi) ==
    LET stores == {j \in 1..(i - 1) : Trace[j].kind = "store" /\ Trace[j].pi = pi}
    IN  IF stores # {} THEN Trace[CHOOSE j \in stores : \A k \in stores : k <= j].cs
        ELSE IF pi \in DOMAIN vm.last.pre /\ IsClauses(vm.last.pre[pi]) THEN vm.last.pre[pi][2]
        ELSE <<>>

UserCall(i) == Trace[i].kind = "call" /\ Trace[i].pi # <<"$call", 0>>

\* C28: logical update view: a call of a user-defined procedure tries
\* exactly the clauses the procedure had at the moment of the call, in
\* their order: its n-th alternative is the n-th of those clauses, and it
\* fails only when all of them were tried, whatever assertz, asserta,
\* retract and abolish did to the procedure in between.
C28_LogicalUpdateView ==
    \A i \in 1..Len(Trace) :
        UserCall(i) =>
            \A j \in (i + 1)..Len(Trace) :
                Trace[j].id = Trace[i].id =>
                    /\ Trace[j].kind = "try" =>
                           /\ Trace[j].n <= Len(ClausesAt(i, Trace[i].pi))
                           /\ Trace[j].cs = <<ClausesAt(i, Trace[i].pi)[Trace[j].n]>>
                           /\ Trace[j].n > 1 =>
                                  \E k \in (i + 1)..(j - 1) :
                                      /\ Trace[k].kind = "try" /\ Trace[k].id = Trace[i].id
                                      /\ Trace[k].n = Trace[j].n - 1
                    /\ Trace[j].kind = "fail" =>
                           \A n \in 1..Len(ClausesAt(i, Trace[i].pi)) :
                               \E k \in (i + 1)..(j - 1) :
                                   /\ Trace[k].kind = "try" /\ Trace[k].id = Trace[i].id
                                   /\ Trace[k].n = n

\* between two alternatives of one call the procedure was changed
C28_Witness ==
    \E i, j, k \in 1..Len(Trace) :
        /\ i < j /\ j < k
        /\ Trace[i].kind = "try" /\ Trace[k].kind = "try" /\ Trace[i].id = Trace[k].id
        /\ Trace[j].kind = "store" /\ Trace[j].pi = Trace[i].pi
        /\ ClausesAt(j + 1, Trace[i].pi) # ClausesAt(i, Trace[i].pi)

(***************************************************************************)
(* Specification SpecCompile: the bytecode clause.compile lays out         *)
(***************************************************************************)
MaxCompiles == 1

Instruction(opcode, operand) == [opcode |-> opcode, operand |-> operand]

NewClause == [bytecode |-> <<>>, xrTable |-> <<>>, piTable |-> <<>>, vars |-> <<>>]

\* byte(i)
Byte(i) == i % 256

\* the offset of o in table, which gets o appended if it does not hold it
Offset(table, o) ==
    IF \E i \in 1..Len(table) : table[i] = o
    THEN [table |-> table, offset |-> Byte(Min({i \in 1..Len(table) : table[i] = o}) - 1)]
    ELSE [table |-> Append(table, o), offset |-> Byte(Len(table))]

\* clause.xrOffset, clause.varOffset, clause.piOffset, with the instruction
\* that takes the offset as operand appended
xrOffset(c, opcode, o) ==
    [c EXCEPT !.xrTable = Offset(c.xrTable, o).table,
              !.bytecode = Append(@, Instruction(opcode, Offset(c.xrTable, o).offset))]
varOffset(c, opcode, o) ==
    [c EXCEPT !.vars = Offset(c.vars, o).table,
              !.bytecode = Append(@, Instruction(opcode, Offset(c.vars, o).offset))]
piOffset(c, opcode, o) ==
    [c EXCEPT !.piTable = Offset(c.piTable, o).table,
              !.bytecode = Append(@, Instruction(opcode, Offset(c.piTable, o).offset))]

Emit(c, opcode) == [c EXCEPT !.bytecode = Append(@, Instruction(opcode, 0))]

Compiled(c, err) == [c |-> c, err |-> err]

errNotCallable == Atom("not callable")

RECURSIVE compileArg(_, _)
RECURSIVE compileArgs(_, _, _)
\* clause.compileArg
compileArg(c, a) ==
    IF IsVar(a) THEN Compiled(varOffset(c, "opVar", a), NoValue)
    ELSE IF IsInteger(a) \/ IsAtom(a) THEN Compiled(xrOffset(c, "opConst", a), NoValue)
    ELSE IF IsCmp(a)
        THEN The({ IF r.err # NoValue THEN r ELSE Compiled(Emit(r.c, "opPop"), NoValue) :
                   r \in {compileArgs(piOffset(c, "opFunctor", <<FunctorOf(a), Len(ArgsOf(a))>>),
                                      ArgsOf(a), 1)} })
    ELSE Compiled(c, Cmp("system_error", <<a>>))

\* for _, a := range Args { compileArg(a, env) }
compileArgs(c, args, i) ==
    IF i > Len(args) THEN Compiled(c, NoValue)
    ELSE The({ IF r.err # NoValue THEN r ELSE compileArgs(r.c, args, i + 1) :
               r \in {compileArg(c, args[i])} })

\* A plausible slip: '!' is called as a procedure like any other atom.
compilePredCallsCut(c, p) ==
    IF IsVar(p)
        THEN The({ IF r.err # NoValue THEN r
                   ELSE Compiled(piOffset(r.c, "opCall", <<"call", 1>>), NoValue) :
                   r \in {compileArgs(c, <<p>>, 1)} })
    ELSE IF p = Atom("repeat") THEN Compiled(Emit(c, "opRepeat"), NoValue)
    ELSE IF IsAtom(p) THEN Compiled(piOffset(c, "opCall", <<p[2], 0>>), NoValue)
    ELSE IF IsCmp(p)
        THEN The({ IF r.err # NoValue THEN r
                   ELSE Compiled(piOffset(r.c, "opCall", <<FunctorOf(p), Len(ArgsOf(p))>>), NoValue) :
                   r \in {compileArgs(c, ArgsOf(p), 1)} })
    ELSE Compiled(c, errNotCallable)

\* clause.compilePred
compilePred(c, p) ==
    IF IsVar(p)
        THEN The({ IF r.err # NoValue THEN r
                   ELSE Compiled(piOffset(r.c, "opCall", <<"call", 1>>), NoValue) :
                   r \in {compileArgs(c, <<p>>, 1)} })
    ELSE IF p = Atom("!") THEN Compiled(Emit(c, "opCut"), NoValue)
    ELSE IF p = Atom("repeat") THEN Compiled(Emit(c, "opRepeat"), NoValue)
    ELSE IF IsAtom(p) THEN Compiled(piOffset(c, "opCall", <<p[2], 0>>), NoValue)
    ELSE IF IsCmp(p)
        THEN The({ IF r.err # NoValue THEN r
                   ELSE Compiled(piOffset(r.c, "opCall", <<FunctorOf(p), Len(ArgsOf(p))>>), NoValue) :
                   r \in {compileArgs(c, ArgsOf(p), 1)} })
    ELSE Compiled(c, errNotCallable)

RECURSIVE compileConjuncts(_, _)
\* the for loop of clause.compileBody and the compilePred after it
compileConjuncts(c, body) ==
    IF IsCmp(body) /\ FunctorOf(body) = "," /\ Len(ArgsOf(body)) = 2
    THEN The({ IF r.err # NoValue THEN r ELSE compileConjuncts(r.c, ArgsOf(body)[2]) :
               r \in {compilePred(c, ArgsOf(body)[1])} })
    ELSE compilePred(c, body)

\* clause.compileBody
compileBytecodeBody(c, body) == compileConjuncts(Emit(c, "opEnter"), body)

\* clause.compileClause
compileBytecodeClause(c, head, body) ==
    IF IsVar(head) THEN Compiled(c, Atom("instantiation_error"))
    ELSE IF ~(IsAtom(head) \/ IsCmp(head))
        THEN Compiled(c, Cmp("type_error", <<Atom("callable"), head>>))
    ELSE The({ IF h.err # NoValue THEN h
               ELSE IF body = NoValue THEN Compiled(Emit(h.c, "opExit"), NoValue)
               ELSE The({ IF b.err = errNotCallable
                              THEN Compiled(b.c, Cmp("type_error", <<Atom("callable"), body>>))
                          ELSE IF b.err # NoValue THEN b
                          ELSE Compiled(Emit(b.c, "opExit"), NoValue) :
                          b \in {compileBytecodeBody(h.c, body)} }) :
               h \in {IF IsCmp(head) THEN compileArgs(c, ArgsOf(head), 1) ELSE Compiled(c, NoValue)} })

\* clause.compile, under the empty env
compileBytecode(t) ==
    IF IsVar(t) THEN Compiled(NewClause, Atom("instantiation_error"))
    ELSE IF IsAtom(t) THEN compileBytecodeClause(NewClause, t, NoValue)
    ELSE IF IsCmp(t) THEN
        IF FunctorOf(t) = ":-" /\ Len(ArgsOf(t)) >= 2
            THEN compileBytecodeClause(NewClause, ArgsOf(t)[1], ArgsOf(t)[2])
        ELSE IF FunctorOf(t) = ":-" THEN Compiled(NewClause, Atom("panic: index out of range"))
        ELSE compileBytecodeClause(NewClause, t, NoValue)
    ELSE Compiled(NewClause, Cmp("type_error", <<Atom("callable"), t>>))

\* what an instruction refers to through the tables of its clause
Decode(c, in) ==
    IF in.opcode = "opVar" THEN [opcode |-> in.opcode, arg |-> c.vars[in.operand + 1]]
    ELSE IF in.opcode = "opConst" THEN [opcode |-> in.opcode, arg |-> c.xrTable[in.operand + 1]]
    ELSE IF in.opcode \in {"opFunctor", "opCall"}
        THEN [opcode |-> in.opcode, arg |-> PITerm(c.piTable[in.operand + 1])]
    ELSE [opcode |-> in.opcode, arg |-> NoValue]

Decoded(c) == [i \in 1..Len(c.bytecode) |-> Decode(c, c.bytecode[i])]

Op(opcode, arg) == [opcode |-> opcode, arg |-> arg]

RECURSIVE ArgShape(_)
RECURSIVE ArgsShape(_, _)
\* a term in pre-order
ArgShape(a) ==
    IF IsVar(a) THEN <<Op("opVar", a)>>
    ELSE IF IsCmp(a)
        THEN <<Op("opFunctor", PITerm(<<FunctorOf(a), Len(ArgsOf(a))>>))>>
             \o ArgsShape(ArgsOf(a), 1) \o <<Op("opPop", NoValue)>>
    ELSE <<Op("opConst", a)>>

ArgsShape(args, i) == IF i > Len(args) THEN <<>> ELSE ArgShape(args[i]) \o ArgsShape(args, i + 1)

\* the conjuncts of a body, left to right
RECURSIVE Conjuncts(_)
Conjuncts(body) ==
    IF IsCmp(body) /\ FunctorOf(body) = "," /\ Len(ArgsOf(body)) = 2
    THEN <<ArgsOf(body)[1]>> \o Conjuncts(ArgsOf(body)[2])
    ELSE <<body>>

ConjunctShape(g) ==
    IF g = Atom("!") THEN <<Op("opCut", NoValue)>>
    ELSE IF g = Atom("repeat") THEN <<Op("opRepeat", NoValue)>>
    ELSE IF IsVar(g) THEN <<Op("opVar", g), Op("opCall", PITerm(<<"call", 1>>))>>
    ELSE IF IsAtom(g) THEN <<Op("opCall", PITerm(<<g[2], 0>>))>>
    ELSE ArgsShape(ArgsOf(g), 1) \o <<Op("opCall", PITerm(<<FunctorOf(g), Len(ArgsOf(g))>>))>>

RECURSIVE ConjunctsShape(_, _)
ConjunctsShape(gs, i) ==
    IF i > Len(gs) THEN <<>> ELSE ConjunctShape(gs[i]) \o ConjunctsShape(gs, i + 1)

ClauseShape(head, body) ==
    (IF IsCmp(head) THEN ArgsShape(ArgsOf(head), 1) ELSE <<>>)
    \o (IF body = NoValue THEN <<>>
        ELSE <<Op("opEnter", NoValue)>> \o ConjunctsShape(Conjuncts(body), 1))
    \o <<Op("opExit", NoValue)>>

OpCount(code, k, opcode) == Cardinality({i \in 1..k : code[i].opcode = opcode})

\* op_functor and op_pop are balanced and properly nested
Balanced(code) ==
    /\ \A k \in 1..Len(code) : OpCount(code, k, "opPop") <= OpCount(code, k, "opFunctor")
    /\ OpCount(code, Len(code), "opPop") = OpCount(code, Len(code), "opFunctor")
    /\ \A k \in 1..Len(code) :
           code[k].opcode \in {"opEnter", "opCall"}
               => OpCount(code, k, "opPop") = OpCount(code, k, "opFunctor")

CompileHeads ==
    { Atom("a"), Cmp("f", <<Var("X")>>), Cmp("f", <<Atom("a"), Integer(1)>>),
      Cmp("f", <<Cmp("g", <<Var("X"), Atom("b")>>), Var("Y"), Var("X")>>),
      Cmp("g", <<Cmp("f", <<Cmp("g", <<Atom("a")>>)>>), Atom("a")>>),
      Var("G"), Integer(1) }

CompileBodies ==
    { NoValue, Atom("true"), Atom("!"), Atom("repeat"), Var("V"), Integer(1),
      Cmp("g", <<Var("X")>>),
      Conj(Cmp("g", <<Var("X")>>), Atom("!")),
      Conj(Atom("!"), Var("V")),
      Conj(Atom("a"), Conj(Atom("b"), Atom("c"))),
      Conj(Conj(Atom("a"), Atom("b")), Atom("c")),
      Conj(Integer(1), Atom("a")),
      Conj(Atom("a"), Integer(1)),
      Conj(Var("X"), Cmp("f", <<Cmp("g", <<Var("Y"), Atom("!")>>)>>)),
      Conj(Atom("repeat"), Conj(Cmp("g", <<Var("X"), Atom("a")>>), Conj(Atom("!"), Cmp("g", <<Atom("a"), Var("X")>>)))) }

NoCompile == [head |-> NoValue, body |-> NoValue, c |-> NewClause, err |-> NoValue]

CompileInit ==
    /\ bi = [n |-> 0, last |-> NoCompile]
    /\ heap = <<>>
    /\ held = Idle /\ un = Idle /\ rs = Idle /\ tv = Idle /\ ops = Idle /\ db = Idle
    /\ streams = Idle /\ top = Idle /\ gen = Idle /\ vm = Idle

Compiling(head, body, r) ==
    /\ bi.n < MaxCompiles
    /\ bi' = [n |-> bi.n + 1, last |-> [head |-> head, body |-> body, c |-> r.c, err |-> r.err]]
    /\ UNCHANGED <<heap, held, un, rs, tv, ops, db, streams, top, gen, vm>>

\* compile of a fact
CompileFact(head) ==
    /\ \E r \in {compileBytecode(head)} : Compiling(head, NoValue, r)

\* compile of a rule head :- body
CompileRule(head, body) ==
    /\ \E r \in {compileBytecode(Rule(head, body))} : Compiling(head, body, r)

CompileNext ==
    \/ \E head \in CompileHeads : CompileFact(head)
    \/ \E head \in CompileHeads, body \in CompileBodies \ {NoValue} : CompileRule(head, body)

SpecCompile == CompileInit /\ [][CompileNext]_vars

CompiledClause == bi.n > 0 /\ bi.last.err = NoValue

HeadCallable == bi.n > 0 /\ (IsAtom(bi.last.head) \/ IsCmp(bi.last.head))

NumericConjunct ==
    /\ bi.last.body # NoValue
    /\ \E i \in 1..Len(Conjuncts(bi.last.body)) : IsInteger(Conjuncts(bi.last.body)[i])

\* C24: the bytecode of a clause that compiles is its head arguments in
\* pre-order, with op_functor and op_pop balanced and nested, then op_enter
\* and the conjuncts of the body left to right if it has a body (arguments
\* then op_call, op_cut for '!', op_repeat for 'repeat', call/1 on V for a
\* variable V), then one op_exit, the last instruction; a numeric conjunct
\* gives type_error(callable, Body).
C24_BytecodeShape ==
    /\ CompiledClause =>
           /\ Decoded(bi.last.c) = ClauseShape(bi.last.head, bi.last.body)
           /\ Balanced(bi.last.c.bytecode)
           /\ OpCount(bi.last.c.bytecode, Len(bi.last.c.bytecode), "opExit") = 1
           /\ bi.last.c.bytecode[Len(bi.last.c.bytecode)].opcode = "opExit"
           /\ OpCount(bi.last.c.bytecode, Len(bi.last.c.bytecode), "opEnter")
                  = IF bi.last.body = NoValue THEN 0 ELSE 1
    /\ (HeadCallable /\ NumericConjunct)
           => bi.last.err = Cmp("type_error", <<Atom("callable"), bi.last.body>>)

\* a rule with a nested head argument, a cut and a variable conjunct compiled
C24_Witness ==
    /\ CompiledClause
    /\ \E i \in 1..Len(Conjuncts(bi.last.body)) : IsVar(Conjuncts(bi.last.body)[i])
    /\ Atom("!") \in Range(Conjuncts(bi.last.body))
    /\ OpCount(bi.last.c.bytecode, Len(bi.last.c.bytecode), "opFunctor") >= 2

\* a body with a numeric conjunct after a callable one was refused
C24_WitnessNumeric ==
    /\ HeadCallable /\ NumericConjunct /\ Len(Conjuncts(bi.last.body)) > 1
    /\ bi.last.err # NoValue

(***************************************************************************)
(* Specification SpecAtom: Atom.WriteTerm and Atom.String.  An atom is the *)
(* sequence of its characters; the control characters are named (BEL, BS,  *)
(* FF, LF, CR, TAB, VT, NUL), and so are the backslash, the single quote,  *)
(* the double quote and the backquote.                                     *)
(***************************************************************************)
MaxAtomLen == 2

ControlChars == {"BEL", "BS", "FF", "LF", "CR", "TAB", "VT", "NUL"}
QuoteChars == {"BACKSLASH", "QUOTE", "DQUOTE", "BACKQUOTE"}
SymbolChars == {"+", "BACKSLASH"}
SmallLetters == {"a", "b", "c"}
AlnumChars == SmallLetters \cup {"B", "1", "_"}

AtomChars == ControlChars \cup QuoteChars \cup SymbolChars \cup AlnumChars \cup {" "}

\* the backslash escape of a character of a quoted atom
quotedAtomEscape(ch) ==
    IF ch = "BEL" THEN <<"BACKSLASH", "a">>
    ELSE IF ch = "BS" THEN <<"BACKSLASH", "b">>
    ELSE IF ch = "FF" THEN <<"BACKSLASH", "f">>
    ELSE IF ch = "LF" THEN <<"BACKSLASH", "n">>
    ELSE IF ch = "CR" THEN <<"BACKSLASH", "r">>
    ELSE IF ch = "TAB" THEN <<"BACKSLASH", "t">>
    ELSE IF ch = "VT" THEN <<"BACKSLASH", "v">>
    ELSE IF ch = "NUL" THEN <<"BACKSLASH", "x", "0", "BACKSLASH">>
    ELSE IF ch \in QuoteChars THEN <<"BACKSLASH", ch>>
    ELSE <<ch>>

\* an atom that is written as it is: a letter-digit atom that begins with a
\* small letter, or a symbolic atom
unquotedAtom(text) ==
    \/ /\ Len(text) > 0 /\ text[1] \in SmallLetters
       /\ \A i \in 1..Len(text) : text[i] \in AlnumChars
    \/ /\ Len(text) > 0
       /\ \A i \in 1..Len(text) : text[i] \in SymbolChars

RECURSIVE Escaped(_, _)
Escaped(text, i) ==
    IF i > Len(text) THEN <<>> ELSE quotedAtomEscape(text[i]) \o Escaped(text, i + 1)

\* Atom.WriteTerm
AtomWriteTerm(text, quoted) ==
    IF ~quoted \/ unquotedAtom(text) THEN text
    ELSE <<"QUOTE">> \o Escaped(text, 1) \o <<"QUOTE">>

\* Atom.String
AtomString(text) == AtomWriteTerm(text, TRUE)

Want(atom, quoted, want) == [atom |-> atom, quoted |-> quoted, want |-> want]

\* A plausible slip: the empty atom is expected to be written as nothing.
TestAtomStringEmptyUnquoted ==
    { Want(<<"a", "b", "c">>, TRUE, <<"a", "b", "c">>),
      Want(<<"BEL">>, TRUE, <<"QUOTE", "BACKSLASH", "a", "QUOTE">>),
      Want(<<>>, TRUE, <<>>) }

\* TestAtom_String: the atom and the string expected
TestAtomString ==
    { Want(<<"a", "b", "c">>, TRUE, <<"a", "b", "c">>),
      Want(<<"BEL">>, TRUE, <<"QUOTE", "BACKSLASH", "a", "QUOTE">>),
      Want(<<"BS">>, TRUE, <<"QUOTE", "BACKSLASH", "b", "QUOTE">>),
      Want(<<"FF">>, TRUE, <<"QUOTE", "BACKSLASH", "f", "QUOTE">>),
      Want(<<"LF">>, TRUE, <<"QUOTE", "BACKSLASH", "n", "QUOTE">>),
      Want(<<"CR">>, TRUE, <<"QUOTE", "BACKSLASH", "r", "QUOTE">>),
      Want(<<"TAB">>, TRUE, <<"QUOTE", "BACKSLASH", "t", "QUOTE">>),
      Want(<<"VT">>, TRUE, <<"QUOTE", "BACKSLASH", "v", "QUOTE">>),
      Want(<<"NUL">>, TRUE, <<"QUOTE", "BACKSLASH", "x", "0", "BACKSLASH", "QUOTE">>),
      Want(<<"BACKSLASH", "BEL">>, TRUE, <<"QUOTE", "BACKSLASH", "BACKSLASH", "BACKSLASH", "a", "QUOTE">>),
      Want(<<"QUOTE">>, TRUE, <<"QUOTE", "BACKSLASH", "QUOTE", "QUOTE">>),
      Want(<<"DQUOTE">>, TRUE, <<"QUOTE", "BACKSLASH", "DQUOTE", "QUOTE">>),
      Want(<<"BACKQUOTE">>, TRUE, <<"QUOTE", "BACKSLASH", "BACKQUOTE", "QUOTE">>),
      Want(<<>>, TRUE, <<"QUOTE", "QUOTE">>) }

AllEscaped == <<"BEL", "BS", "FF", "LF", "CR", "TAB", "VT", "NUL", "BACKSLASH", "QUOTE", "DQUOTE", "BACKQUOTE">>

\* TestAtom_WriteTerm: the atom, the option quoted and the output expected
TestAtomWriteTerm ==
    { Want(<<"a">>, FALSE, <<"a">>),
      Want(AllEscaped, FALSE, AllEscaped),
      Want(<<"a">>, TRUE, <<"a">>),
      Want(AllEscaped, TRUE,
           <<"QUOTE", "BACKSLASH", "a", "BACKSLASH", "b", "BACKSLASH", "f", "BACKSLASH", "n", "BACKSLASH", "r", "BACKSLASH", "t", "BACKSLASH", "v",
             "BACKSLASH", "x", "0", "BACKSLASH", "BACKSLASH", "BACKSLASH", "BACKSLASH", "QUOTE", "BACKSLASH", "DQUOTE", "BACKSLASH", "BACKQUOTE", "QUOTE">>) }

AtomTexts ==
    SeqsUpTo(AtomChars, MaxAtomLen) \cup {w.atom : w \in TestAtomString \cup TestAtomWriteTerm}

NoWrite == [fn |-> "none", text |-> <<>>, quoted |-> FALSE, out |-> <<>>]

\* the atom to be written
AtomInit ==
    /\ \E text \in AtomTexts : bi = [text |-> text, n |-> 0, last |-> NoWrite]
    /\ heap = <<>>
    /\ held = Idle /\ un = Idle /\ rs = Idle /\ tv = Idle /\ ops = Idle /\ db = Idle
    /\ streams = Idle /\ top = Idle /\ gen = Idle /\ vm = Idle

\* Atom(text).WriteTerm(&buf, WriteTermOptions{Quoted: quoted}, nil)
WriteAtom(quoted) ==
    /\ bi.n = 0
    /\ bi' = [bi EXCEPT !.n = 1,
                        !.last = [fn |-> "WriteTerm", text |-> bi.text, quoted |-> quoted,
                                  out |-> AtomWriteTerm(bi.text, quoted)]]
    /\ UNCHANGED <<heap, held, un, rs, tv, ops, db, streams, top, gen, vm>>

\* Atom(text).String()
StringOfAtom ==
    /\ bi.n = 0
    /\ bi' = [bi EXCEPT !.n = 1,
                        !.last = [fn |-> "String", text |-> bi.text, quoted |-> TRUE,
                                  out |-> AtomString(bi.text)]]
    /\ UNCHANGED <<heap, held, un, rs, tv, ops, db, streams, top, gen, vm>>

AtomNext ==
    \/ \E quoted \in BOOLEAN : WriteAtom(quoted)
    \/ StringOfAtom

SpecAtom == AtomInit /\ [][AtomNext]_vars

\* the inner part of a quoted atom read back: the characters it stands for
RECURSIVE Unescaped(_, _)
Unescaped(out, i) ==
    IF i > Len(out) THEN <<>>
    ELSE IF out[i] # "BACKSLASH" THEN <<out[i]>> \o Unescaped(out, i + 1)
    ELSE IF i = Len(out) THEN <<"?">>
    ELSE IF out[i + 1] = "x" THEN
        IF i + 3 <= Len(out) /\ out[i + 2] = "0" /\ out[i + 3] = "BACKSLASH"
        THEN <<"NUL">> \o Unescaped(out, i + 4) ELSE <<"?">>
    ELSE <<(CASE out[i + 1] = "a" -> "BEL" [] out[i + 1] = "b" -> "BS"
              [] out[i + 1] = "f" -> "FF" [] out[i + 1] = "n" -> "LF"
              [] out[i + 1] = "r" -> "CR" [] out[i + 1] = "t" -> "TAB"
              [] out[i + 1] = "v" -> "VT" [] out[i + 1] \in QuoteChars -> out[i + 1]
              [] OTHER -> "?")>> \o Unescaped(out, i + 2)

Inner(out) == SubSeq(out, 2, Len(out) - 1)

\* every character that has an escape stands behind a backslash
NoneRaw(inner) ==
    \A i \in 1..Len(inner) :
        /\ inner[i] \notin ControlChars
        /\ inner[i] \in {"QUOTE", "DQUOTE", "BACKQUOTE"} => (i > 1 /\ inner[i - 1] = "BACKSLASH")

Expected(ws) == {w \in ws : w.atom = bi.last.text /\ w.quoted = bi.last.quoted}

C25_WitnessEmpty == bi.n > 0 /\ bi.last.fn = "String" /\ bi.last.text = <<>>

(***************************************************************************)
(* Specification SpecCompare: term.Compare and compare/3 on two terms, in  *)
(* both directions.                                                        *)
(***************************************************************************)
CompareInts == {Integer(MinInt), Integer(-1), Integer(0), Integer(1), Integer(MaxInt)}

CompareTerms ==
    CompareInts \cup
    { Atom("a"), Atom("b"), Var("X"), Var("Y"),
      Cmp("f", <<Atom("a")>>), Cmp("f", <<Var("X")>>), Cmp("f", <<Cmp("f", <<Atom("a")>>)>>),
      Cmp("g", <<Atom("a"), Atom("b")>>) }

\* the env: empty, or X bound to f(a)
CompareEnvs == {<<>>, <<<<"X", Cmp("f", <<Atom("a")>>)>>>>}

NoComparison == [fn |-> "none", ab |-> 0, ba |-> 0]

CompareInit ==
    /\ \E bs \in CompareEnvs, a \in CompareTerms, b \in CompareTerms :
         \E r \in {BindAll(<<>>, NewEnv, bs, 1)} :
             /\ heap = r.h
             /\ bi = [env |-> r.p, a |-> a, b |-> b, last |-> NoComparison]
    /\ held = Idle /\ un = Idle /\ rs = Idle /\ tv = Idle /\ ops = Idle /\ db = Idle
    /\ streams = Idle /\ top = Idle /\ gen = Idle /\ vm = Idle

\* term.Compare(a, b, env) and term.Compare(b, a, env)
TermCompare ==
    /\ bi.last.fn = "none"
    /\ bi' = [bi EXCEPT !.last = [fn |-> "term.Compare",
                                  ab |-> Compare(heap, bi.env, bi.a, bi.b),
                                  ba |-> Compare(heap, bi.env, bi.b, bi.a)]]
    /\ UNCHANGED <<heap, held, un, rs, tv, ops, db, streams, top, gen, vm>>

\* the d of compare/3: term.Compare(env.Resolve(term1), env.Resolve(term2), env)
compare3(h, e, term1, term2) == Compare(h, e, Resolve(h, e, term1), Resolve(h, e, term2))

\* compare(Order, a, b) and compare(Order, b, a) with Order unbound
Compare3 ==
    /\ bi.last.fn = "none"
    /\ bi' = [bi EXCEPT !.last = [fn |-> "compare/3",
                                  ab |-> compare3(heap, bi.env, bi.a, bi.b),
                                  ba |-> compare3(heap, bi.env, bi.b, bi.a)]]
    /\ UNCHANGED <<heap, held, un, rs, tv, ops, db, streams, top, gen, vm>>

CompareNext == TermCompare \/ Compare3

SpecCompare == CompareInit /\ [][CompareNext]_vars

Sign(d) == IF d < 0 THEN -1 ELSE IF d > 0 THEN 1 ELSE 0

Compared == bi.last.fn # "none"

\* a and b are the same term once bound variables are resolved
Identical ==
    Simplify(heap, bi.env, bi.a, MaxDepth) = Simplify(heap, bi.env, bi.b, MaxDepth)

\* C29: term.Compare is a total order under an environment: the sign of
\* Compare(a, b, env) is the opposite of the sign of Compare(b, a, env);
\* Compare(a, b, env) = 0 exactly when a and b are identical once bound
\* variables are resolved; and on integers the sign is that of the
\* mathematical difference.
C29_CompareTotalOrder ==
    Compared =>
        /\ Sign(bi.last.ab) = -Sign(bi.last.ba)
        /\ (bi.last.ab = 0) <=> Identical
        /\ (IsInteger(bi.a) /\ IsInteger(bi.b)) => Sign(bi.last.ab) = Sign(bi.a[2] - bi.b[2])

(***************************************************************************)
(* Specification SpecParse: Parser.Term on a sequence of atom tokens       *)
(* without parentheses, under an operator table.                           *)
(***************************************************************************)
MaxTokens == 5

operator(precedence, type, name) == [Precedence |-> precedence, Type |-> type, Name |-> name]

\* operator.bindingPowers
bindingPowers(o) ==
    LET bp == 1201 - o.Precedence
    IN  IF o.Type = "xf" THEN <<bp + 1, 0>>
        ELSE IF o.Type = "yf" THEN <<bp, -1>>
        ELSE IF o.Type = "xfx" THEN <<bp + 1, bp + 1>>
        ELSE IF o.Type = "xfy" THEN <<bp + 1, bp>>
        ELSE IF o.Type = "yfx" THEN <<bp, bp + 1>>
        ELSE IF o.Type = "fx" THEN <<0, bp + 1>>
        ELSE IF o.Type = "fy" THEN <<0, bp>>
        ELSE <<0, 0>>

\* p.current: the token at pos, "EOS" after the last
Current(toks, pos) == IF pos <= Len(toks) THEN toks[pos] ELSE "EOS"

\* a term the parser built: an atom, or a compound with the operator it
\* was built for
ParsedAtom(a) == <<"atom", a>>
ParsedCompound(o, args) == <<"cmp", o, args>>

Parsing(ok, t, pos) == [ok |-> ok, t |-> t, pos |-> pos]

\* Parser.acceptOp: the first operator of the table that has the name of
\* the current token and a left binding power of at least min
acceptOp(operators, toks, pos, min) ==
    LET found == {i \in 1..Len(operators) :
                      /\ operators[i].Name = Current(toks, pos)
                      /\ bindingPowers(operators[i])[1] >= min}
    IN  IF found = {} THEN Parsing(FALSE, NoValue, pos)
        ELSE Parsing(TRUE, operators[Min(found)], pos + 1)

\* Parser.expr0 on atom tokens
expr0(toks, pos) ==
    IF Current(toks, pos) = "EOS" THEN Parsing(FALSE, NoValue, pos)
    ELSE Parsing(TRUE, ParsedAtom(Current(toks, pos)), pos + 1)

RECURSIVE expr(_, _, _, _)
RECURSIVE prefixUnary(_, _, _, _)
RECURSIVE exprLoop(_, _, _, _, _)

\* Parser.prefixUnary, from the i-th operator of the table on
prefixUnary(operators, toks, pos, i) ==
    IF i > Len(operators) THEN Parsing(FALSE, NoValue, pos)
    ELSE IF bindingPowers(operators[i])[1] # 0 \/ operators[i].Name # Current(toks, pos)
        THEN prefixUnary(operators, toks, pos, i + 1)
    ELSE The({ IF ~x.ok THEN x ELSE Parsing(TRUE, ParsedCompound(operators[i], <<x.t>>), x.pos) :
               x \in {expr(operators, toks, pos + 1, bindingPowers(operators[i])[2])} })

\* the for loop of Parser.expr
exprLoop(operators, toks, lhs, pos, min) ==
    The({ IF ~op.ok THEN Parsing(TRUE, lhs, pos)
          ELSE The({ IF ~rhs.ok THEN rhs
                     ELSE exprLoop(operators, toks, ParsedCompound(op.t, <<lhs, rhs.t>>), rhs.pos, min) :
                     rhs \in {expr(operators, toks, op.pos, bindingPowers(op.t)[2])} }) :
          op \in {acceptOp(operators, toks, pos, min)} })

\* Parser.expr
expr(operators, toks, pos, min) ==
    The({ IF t.ok THEN t
          ELSE The({ IF ~lhs.ok THEN lhs ELSE exprLoop(operators, toks, lhs.t, lhs.pos, min) :
                     lhs \in {expr0(toks, t.pos)} }) :
          t \in {prefixUnary(operators, toks, pos, 1)} })

\* Parser.Term (no parenthesis follows)
ParserTerm(operators, toks) == expr(operators, toks, 1, 1)

\* operator tables, sorted as operators.Less sorts them
ParserTables ==
    { << operator(700, "xfx", "="), operator(500, "yfx", "+"), operator(200, "xfy", "^") >>,
      << operator(1001, "xfx", "="), operator(1000, "xfy", "^"), operator(999, "yfx", "+") >>,
      << operator(700, "xfx", "="), operator(200, "xf", "+"), operator(200, "fy", "^") >>,
      << operator(500, "yfx", "+"), operator(500, "xfx", "="), operator(1, "fx", "^") >> }

TokenAtoms == {"a", "=", "+", "^"}

NoParse == [ok |-> FALSE, t |-> NoValue, pos |-> 0]

ParseInit ==
    /\ \E operators \in ParserTables, toks \in SeqsUpTo(TokenAtoms, MaxTokens) :
         bi = [operators |-> operators, toks |-> toks, n |-> 0, last |-> NoParse]
    /\ heap = <<>>
    /\ held = Idle /\ un = Idle /\ rs = Idle /\ tv = Idle /\ ops = Idle /\ db = Idle
    /\ streams = Idle /\ top = Idle /\ gen = Idle /\ vm = Idle

\* p.Term() on the tokens
Parse ==
    /\ bi.n = 0
    /\ bi' = [bi EXCEPT !.n = 1, !.last = ParserTerm(bi.operators, bi.toks)]
    /\ UNCHANGED <<heap, held, un, rs, tv, ops, db, streams, top, gen, vm>>

ParseNext == Parse

SpecParse == ParseInit /\ [][ParseNext]_vars

\* the priority of the principal operator of a term, 0 for an atom
Priority(t) == IF t[1] = "cmp" THEN t[2].Precedence ELSE 0

\* the operand fits the position ("x" or "y") of an operator of priority p
Fits(t, position, p) == IF position = "x" THEN Priority(t) < p ELSE Priority(t) <= p

\* the operands of one compound are where the specifier of its operator has
\* them, and fit
OperandsFit(o, args) ==
    IF o.Type \in {"xfx", "xfy", "yfx"}
        THEN /\ Len(args) = 2
             /\ Fits(args[1], IF o.Type = "yfx" THEN "y" ELSE "x", o.Precedence)
             /\ Fits(args[2], IF o.Type = "xfy" THEN "y" ELSE "x", o.Precedence)
    ELSE /\ Len(args) = 1
         /\ Fits(args[1], IF o.Type \in {"fy", "yf"} THEN "y" ELSE "x", o.Precedence)

RECURSIVE Respects(_)
Respects(t) ==
    t[1] = "cmp" => (OperandsFit(t[2], t[3]) /\ \A i \in 1..Len(t[3]) : Respects(t[3][i]))

\* every token was read into the term
ParsedAll == bi.n = 1 /\ bi.last.ok /\ bi.last.pos = Len(bi.toks) + 1

\* C30: the parser respects priorities and specifiers: in every term built
\* without parentheses an operand in an x position of an operator of
\* priority p has a principal operator of priority below p, one in a y
\* position of priority at most p, and a postfix operator has no right
\* operand.
C30_PrioritiesRespected == ParsedAll => Respects(bi.last.t)

====
